---------------------------- MODULE Spec2Model ----------------------------
(***************************************************************************)
(* A model of MFTShadowForge: the $MFT extractor (commands/extract.rs),    *)
(* the partition locator, the fixup applier (mft/parser.rs), the parser    *)
(* main loop (commands/parse.rs) and the path builder                      *)
(* (mft/path_builder.rs).                                                  *)
(*                                                                         *)
(* Each subsystem keeps its state in one record-valued variable; a         *)
(* specification drives one subsystem and leaves the others idle.          *)
(* Disk content is revealed when the code reads it: an action that reads   *)
(* a sector, a record or an attribute draws what it reads from a small     *)
(* set.                                                                    *)
(***************************************************************************)
EXTENDS Integers, Sequences, FiniteSets, TLC

VARIABLES
    ex,     \* the extractor: locals of extract::run and its files
    loc,    \* the partition locator: find_ntfs_partition
    fx,     \* the fixup applier: apply_fixups on one buffer
    pa,     \* the parser: MftParser and the locals of parse::run, pass 2
    pb      \* the path builder: one get_full_path walk

vars == <<ex, loc, fx, pa, pb>>

Idle == [pc |-> "idle"]

Min(a, b) == IF a <= b THEN a ELSE b

SeqSum(s) ==
    LET RECURSIVE Go(_)
        Go(i) == IF i = 0 THEN 0 ELSE s[i] + Go(i - 1)
    IN  Go(Len(s))

(***************************************************************************)
(* Bounds of the model.                                                    *)
(***************************************************************************)
MaxAttrs == 2        \* attributes walked in one record before the end marker
MaxTargets == 2      \* $ATTRIBUTE_LIST entries read in one extraction

(***************************************************************************)
(* Program constants.                                                      *)
(***************************************************************************)
ATTR_END == 0                 \* attr_type 0 (and 0xFFFFFFFF) ends a walk
ATTR_STANDARD_INFORMATION == 16
ATTR_ATTRIBUTE_LIST == 32
ATTR_FILE_NAME == 48
ATTR_DATA == 128
MIN_HEADER_SIZE == 48
MIN_RECORD_SIZE == 1024
MIN_DR_OFF == 64
LIST_ENTRY_MIN == 26
ALLOC_FIELD_END == 48
MAX_ATTR_LIST_SIZE == 1048576
CHUNK_SIZE == 1048576

(***************************************************************************)
(* mft/boot.rs: the decoded boot sector.  clusters_per_file_record_segment *)
(* is the signed byte at offset 64.                                        *)
(***************************************************************************)
bytes_per_cluster(boot) == boot.bytes_per_sector * boot.sectors_per_cluster

Pow2(n) ==
    LET RECURSIVE P(_)
        P(k) == IF k = 0 THEN 1 ELSE 2 * P(k - 1)
    IN  P(n)

is_power_of_two(n) == n > 0 /\ \E k \in 0..30 : n = Pow2(k)

\* None is modelled as -1.  (The u32 cast and saturating_mul do not change any
\* value of the model: every bytes_per_cluster here is far below 2^32.)
file_record_size_bytes(boot) ==
    LET bpc == bytes_per_cluster(boot)
        v == boot.clusters_per_file_record_segment
    IN  IF v = 0 THEN -1
        ELSE IF v > 0 THEN bpc * v
        ELSE IF -v > 30 THEN -1     \* 1 << 31 and the None of pow > 31 both fail validate_vbr's use
        ELSE Pow2(-v)

\* extract.rs validate_vbr: the record size, or -1 for Err.
validate_vbr(boot) ==
    LET bps == boot.bytes_per_sector
        rs == file_record_size_bytes(boot)
    IN  IF bps # 512 /\ bps # 1024 /\ bps # 2048 /\ bps # 4096 THEN -1
        ELSE IF boot.sectors_per_cluster = 0
                \/ ~is_power_of_two(boot.sectors_per_cluster) THEN -1
        ELSE IF bytes_per_cluster(boot) = 0 THEN -1
        ELSE IF boot.mft_lcn = 0 THEN -1
        ELSE IF rs = -1 THEN -1
        ELSE IF rs < MIN_RECORD_SIZE \/ ~is_power_of_two(rs) THEN -1
        ELSE rs

(***************************************************************************)
(* mft/parser.rs apply_fixups: whether the result is Failed.  The code     *)
(* decides Failed from the buffer length, the header's USA fields and the  *)
(* sector size alone, never from the buffer's bytes.                       *)
(***************************************************************************)
FixupFails(len, usa_offset, usa_count, bps) ==
    \/ bps = 0
    \/ (bps # 0 /\ len % bps # 0)
    \/ usa_count < 2
    \/ usa_offset + usa_count * 2 > len
    \/ (bps # 0 /\ \E i \in 1..Min(usa_count - 1, len \div bps) :
            \/ i * bps < 2
            \/ i * bps > len
            \/ usa_offset + i * 2 + 1 >= len)

(***************************************************************************)
(* extract.rs validate_record_boundaries.  MftRecordHeader::parse has      *)
(* already refused every signature but FILE and BAAD.                      *)
(***************************************************************************)
validate_record_boundaries_short_by_one(header, record_size) ==
    /\ header.signature = "FILE"
    /\ header.real_size >= MIN_HEADER_SIZE
    /\ header.first_attribute_offset < record_size
    /\ header.real_size <= record_size
    /\ header.first_attribute_offset + 7 <= header.real_size

validate_record_boundaries(header, record_size) ==
    /\ header.signature = "FILE"
    /\ header.real_size >= MIN_HEADER_SIZE
    /\ header.first_attribute_offset < record_size
    /\ header.real_size <= record_size
    /\ header.first_attribute_offset + 8 <= header.real_size

(***************************************************************************)
(* extract.rs parse_data_runs.  record is the byte sequence the mapping    *)
(* pairs are read from (byte k of the code is record[k + 1]).  The u64 and *)
(* i64 locals are 64-bit words, kept as their eight bytes, least           *)
(* significant first, an i64 in two's complement; checked_add is the       *)
(* addition of the bytes with carry.  One iteration of the loop is         *)
(* ParseRunsPair; examined is history, the offset of every pair header     *)
(* that was read and was not 0.                                            *)
(***************************************************************************)
DataRun(vcn_start, length, lcn, is_sparse) ==
    [vcn_start |-> vcn_start, length |-> length, lcn |-> lcn, is_sparse |-> is_sparse]

RunsErr == [ok |-> FALSE, runs |-> <<>>]

WORD_BYTES == 8

ZeroWord == [i \in 1..WORD_BYTES |-> 0]

\* The word of a small natural number, and back (the low four bytes).
IntWord(n) == [i \in 1..WORD_BYTES |-> IF i <= 4 THEN (n \div Pow2(8 * (i - 1))) % 256 ELSE 0]

IntOf(w) == w[1] + 256 * w[2] + 65536 * w[3] + 16777216 * w[4]

IsZero(w) == \A i \in 1..WORD_BYTES : w[i] = 0

\* i64 < 0: bit 63.
IsNegative(w) == w[WORD_BYTES] >= 128

\* The sum of two words modulo 2^64, and the carry out of the top byte.
WordAdd(a, b) ==
    LET RECURSIVE Carry(_)
        Carry(i) == IF i = 0 THEN 0 ELSE (a[i] + b[i] + Carry(i - 1)) \div 256
    IN  [value |-> [i \in 1..WORD_BYTES |-> (a[i] + b[i] + Carry(i - 1)) % 256],
         carry |-> Carry(WORD_BYTES)]

\* i64::checked_add: None when both operands have one sign and the sum the
\* other one.
checked_add_i64(a, b) ==
    LET sum == WordAdd(a, b).value
    IN  [ok |-> ~(IsNegative(a) = IsNegative(b) /\ IsNegative(sum) # IsNegative(a)),
         value |-> sum]

\* u64::checked_add: None on a carry out of bit 63.
checked_add_u64(a, b) ==
    [ok |-> WordAdd(a, b).carry = 0, value |-> WordAdd(a, b).value]

\* Lines 291-294: the little-endian unsigned value of n bytes at offset off.
LeUnsigned(record, off, n) ==
    [i \in 1..WORD_BYTES |-> IF i <= n THEN record[off + i] ELSE 0]

LeSignedZeroExtended(record, off, n) == LeUnsigned(record, off, n)

\* Lines 301-311: the same bytes, the upper ones filled with 0xFF when bit
\* 0x80 of the last one is set.
LeSigned(record, off, n) ==
    IF n = 0 THEN ZeroWord
    ELSE [i \in 1..WORD_BYTES |->
            IF i <= n THEN record[off + i]
            ELSE IF record[off + n] >= 128 THEN 255 ELSE 0]

\* Line 283.
InvalidNibbles(len_bytes, off_bytes) ==
    len_bytes = 0 \/ len_bytes > 8 \/ off_bytes > 8

\* Line 287.
CrossesAttrEnd(run_off, len_bytes, off_bytes, attr_end) ==
    run_off + len_bytes + off_bytes > attr_end

ZeroLengthAccepted(run_length) == FALSE

\* Line 297.
ZeroLength(run_length) == IsZero(run_length)

RunsStart(record, run_off, attr_end, start_vcn) ==
    [pc |-> "loop", record |-> record, attr_end |-> attr_end, start_vcn |-> start_vcn,
     run_off |-> run_off, current_vcn |-> start_vcn, current_lcn |-> ZeroWord,
     runs |-> <<>>, examined |-> <<>>]

\* Lines 274-330: one iteration of the loop.
ParseRunsPair(s) ==
    LET header == s.record[s.run_off + 1]
        len_bytes == header % 16
        off_bytes == header \div 16
        len_off == s.run_off + 1
        delta_off == len_off + len_bytes
        run_length == LeUnsigned(s.record, len_off, len_bytes)
        run_delta == LeSigned(s.record, delta_off, off_bytes)
        lcn_sum == checked_add_i64(s.current_lcn, run_delta)
        vcn_sum == checked_add_u64(s.current_vcn, run_length)
        is_sparse == off_bytes = 0
        t == [s EXCEPT !.examined = Append(@, s.run_off)]
        pushed == [t EXCEPT !.runs = Append(@, DataRun(s.current_vcn, run_length,
                                                       IF is_sparse THEN ZeroWord
                                                       ELSE lcn_sum.value,
                                                       is_sparse)),
                            !.current_lcn = lcn_sum.value,
                            !.run_off = delta_off + off_bytes]
    IN  IF s.run_off >= s.attr_end THEN [s EXCEPT !.pc = "ok"]
        ELSE IF header = 0 THEN [s EXCEPT !.pc = "ok"]
        ELSE IF InvalidNibbles(len_bytes, off_bytes) THEN [t EXCEPT !.pc = "err"]
        ELSE IF CrossesAttrEnd(len_off, len_bytes, off_bytes, s.attr_end)
             THEN [t EXCEPT !.pc = "err"]
        ELSE IF ZeroLength(run_length) THEN [t EXCEPT !.pc = "err"]
        ELSE IF ~lcn_sum.ok THEN [t EXCEPT !.pc = "err"]
        ELSE IF off_bytes > 0 /\ IsNegative(lcn_sum.value) THEN [t EXCEPT !.pc = "err"]
        ELSE IF ~vcn_sum.ok THEN [pushed EXCEPT !.pc = "err"]
        ELSE [pushed EXCEPT !.current_vcn = vcn_sum.value]

RECURSIVE ParseRunsLoop(_)
ParseRunsLoop(s) ==
    IF s.pc # "loop" THEN s ELSE ParseRunsLoop(ParseRunsPair(s))

\* What the call returns: Ok(runs), or Err, which carries no runs.
Returned(s) ==
    IF s.pc = "ok" THEN [ok |-> TRUE, runs |-> s.runs] ELSE RunsErr

\* The call as the extractor makes it; the values of its run lists fit the
\* model's integers.
parse_data_runs(record, run_off, attr_end, start_vcn) ==
    LET r == Returned(ParseRunsLoop(RunsStart(record, run_off, attr_end,
                                              IntWord(start_vcn))))
    IN  [ok |-> r.ok,
         runs |-> [k \in 1..Len(r.runs) |->
                      DataRun(IntOf(r.runs[k].vcn_start), IntOf(r.runs[k].length),
                              IntOf(r.runs[k].lcn), r.runs[k].is_sparse)]]

\* The run area of an attribute: the drawn bytes, cut or zero-padded to the
\* room bytes between the run offset and the attribute's end.
RunArea(bytes, room) ==
    [k \in 1..room |-> IF k <= Len(bytes) THEN bytes[k] ELSE 0]

(***************************************************************************)
(* extract.rs read_logical_mft: whether the read of n bytes at             *)
(* logical_offset succeeds.  A cluster no run covers is an error; so is a  *)
(* read past the end of the volume (read_exact).                           *)
(***************************************************************************)
CoveringRun(runs, target_vcn) ==
    LET hits == {i \in 1..Len(runs) :
                    /\ target_vcn >= runs[i].vcn_start
                    /\ target_vcn < runs[i].vcn_start + runs[i].length}
    IN  IF hits = {} THEN 0 ELSE CHOOSE i \in hits : \A j \in hits : i <= j

RECURSIVE read_logical_mft(_, _, _, _, _, _)
read_logical_mft(vol_len, runs, bpc, partition_offset, logical_offset, n) ==
    IF n = 0 THEN TRUE
    ELSE
    LET target_vcn == logical_offset \div bpc
        offset_in_cluster == logical_offset % bpc
        found == CoveringRun(runs, target_vcn)
        run == runs[found]
        to_read == Min(n, bpc - offset_in_cluster)
        physical_offset ==
            (run.lcn + (target_vcn - run.vcn_start)) * bpc + offset_in_cluster
                + partition_offset
    IN  IF found = 0 THEN FALSE
        ELSE IF ~run.is_sparse /\ physical_offset + to_read > vol_len THEN FALSE
        ELSE read_logical_mft(vol_len, runs, bpc, partition_offset,
                              logical_offset + to_read, n - to_read)

\* Whether the first byte read at logical_offset comes from a sparse run (the
\* buffer then starts with zeros).
StartsSparse(runs, bpc, logical_offset) ==
    LET found == CoveringRun(runs, logical_offset \div bpc)
    IN  found # 0 /\ runs[found].is_sparse

(***************************************************************************)
(* The output file as a byte string in symbolic form: a sequence of        *)
(* segments, each either len zero bytes or the len source bytes that       *)
(* start at byte offset start of the volume.  Adjacent segments that       *)
(* continue each other are one segment, so two equal byte strings have     *)
(* the same form whatever the sizes of the writes that produced them.      *)
(***************************************************************************)
Segment(kind, start, len) == [kind |-> kind, start |-> start, len |-> len]

write_all(file, seg) ==
    IF seg.len = 0 THEN file
    ELSE IF file = <<>> THEN <<seg>>
    ELSE LET last == file[Len(file)]
         IN  IF /\ last.kind = seg.kind
                /\ (seg.kind = "zero" \/ last.start + last.len = seg.start)
             THEN [file EXCEPT ![Len(file)].len = last.len + seg.len]
             ELSE Append(file, seg)

FileLen(file) == SeqSum([i \in 1..Len(file) |-> file[i].len])

(***************************************************************************)
(* The extractor's state: the locals of extract::run, and the files it     *)
(* reads and writes.                                                       *)
(***************************************************************************)
ExStart(boot, partition_offset, vol_len) ==
    [pc |-> "start",
     boot |-> boot,                       \* the sector at partition_offset, decoded
     partition_offset |-> partition_offset,
     vol_len |-> vol_len,                 \* size of the source in bytes
     same_file |-> FALSE,                 \* out_file is the file the source was opened from
     source_modified |-> FALSE,           \* history: a byte of the source or its length has changed
     record_size |-> 0,
     bytes_per_cluster |-> 0,
     attr_offset |-> 0, used_end |-> 0, previous_offset |-> 0,
     attr_end |-> 0, curr |-> 0, list_end |-> 0, list_zero |-> FALSE,
     n_attrs |-> 0, n_list |-> 0,
     attr_list_entries |-> <<>>,
     base_runs |-> <<>>,
     expected_allocated_size |-> 0,
     declared_alloc |-> {},               \* history: the allocated_size of every $DATA header decoded in record 0
     walk_violation |-> FALSE,            \* history: an attribute walk met a length of 0, an attribute past the used end, or an offset that did not grow
     all_runs |-> <<>>,
     contributed |-> {},                  \* history: [idx, vcn_start] of the first run each extent target added to all_runs
     target_idx |-> 0,                    \* position of the for loop over attr_list_entries
     e_off |-> 0, e_used |-> 0, e_prev |-> 0,
     eh_sequence_number |-> 0,            \* eh.sequence_number of the extent record being walked
     field_past_attr_end |-> FALSE,       \* the last walk iteration read a header field at or behind the attribute's end
     index_out_of_range |-> FALSE,        \* the process panicked on an index behind the record buffer
     seq_mismatch |-> FALSE,              \* history: an extent record had another sequence number than its list entry
     expected_total_bytes |-> 0,
     extracted_bytes |-> 0,
     run_idx |-> 0,                       \* position of the copy loop over all_runs
     remaining |-> 0,
     vol_pos |-> 0,                       \* read position of the source handle
     out_created |-> FALSE,
     out_file |-> <<>>,
     sidecar |-> FALSE]

\* fatal(): the process exits; its locals are gone, the files stay as they are.
Fatal(s) ==
    [ExStart(s.boot, s.partition_offset, s.vol_len) EXCEPT
        !.pc = "aborted", !.out_created = s.out_created,
        !.out_file = s.out_file, !.sidecar = s.sidecar,
        !.walk_violation = s.walk_violation,
        !.seq_mismatch = s.seq_mismatch,
        !.field_past_attr_end = s.field_past_attr_end,
        !.same_file = s.same_file, !.source_modified = s.source_modified]

\* An index behind the end of a buffer panics: the process ends as with fatal().
Panic(s) == [Fatal(s) EXCEPT !.index_out_of_range = TRUE]

(***************************************************************************)
(* Lines 350-377: locate the partition, read and validate the boot         *)
(* sector, read record 0.  A source on which find_ntfs_partition or        *)
(* validate_vbr fails, or that is too short for the reads, is fatal.       *)
(***************************************************************************)
ReadVbr(s) ==
    LET rs == validate_vbr(s.boot)
        bpc == bytes_per_cluster(s.boot)
        mft_physical_offset == s.partition_offset + s.boot.mft_lcn * bpc
    IN  IF s.partition_offset + 512 > s.vol_len THEN Fatal(s)
        ELSE IF rs = -1 THEN Fatal(s)
        ELSE IF mft_physical_offset + rs > s.vol_len THEN Fatal(s)
        ELSE [s EXCEPT !.pc = "record0", !.record_size = rs,
                       !.bytes_per_cluster = bpc]

\* Lines 379-399: h is the header MftRecordHeader::parse decodes from record 0
\* (None for a signature that is neither FILE nor BAAD).
ReadRecord0(s, h) ==
    IF h.signature \notin {"FILE", "BAAD"} THEN Fatal(s)
    ELSE IF ~validate_record_boundaries(h, s.record_size) THEN Fatal(s)
    ELSE IF FixupFails(s.record_size, h.update_sequence_offset,
                       h.update_sequence_size, s.boot.bytes_per_sector)
         THEN Fatal(s)
    ELSE [s EXCEPT !.pc = "walk0",
                   !.attr_offset = h.first_attribute_offset,
                   !.used_end = h.real_size,
                   !.previous_offset = 0]

(***************************************************************************)
(* Lines 402-539: the walk over record 0's attributes, one iteration of    *)
(* the while loop per step.  a is the attribute header at attr_offset:     *)
(*   [attr_type, attr_len, non_resident, name_len,                         *)
(*    start_vcn, allocated_size, dr_off, actual_size  (non-resident form)  *)
(*    value_len, value_off                            (resident form)      *)
(*    runbytes]                                       (bytes at dr_off)    *)
(***************************************************************************)
Attr(attr_type, attr_len, non_resident, name_len, start_vcn, allocated_size, dr_off, actual_size, value_len, value_off, runbytes) ==
    [attr_type |-> attr_type, attr_len |-> attr_len,
     non_resident |-> non_resident, name_len |-> name_len,
     start_vcn |-> start_vcn, allocated_size |-> allocated_size,
     dr_off |-> dr_off, actual_size |-> actual_size,
     value_len |-> value_len, value_off |-> value_off, runbytes |-> runbytes]

\* History only: the walk is at an attribute that breaks a walk invariant.
WalkViolation(s) == [s EXCEPT !.walk_violation = TRUE]

\* Lines 541-545, after the loop.
EndWalk0(s) ==
    IF s.base_runs = <<>> THEN Fatal(s)
    ELSE [s EXCEPT !.pc = "extents", !.all_runs = s.base_runs, !.target_idx = 1,
                   !.attr_offset = 0, !.used_end = 0, !.previous_offset = 0,
                   !.n_attrs = 0]

\* Line 538, the end of one iteration.
NextAttr0(s, attr_end) ==
    [s EXCEPT !.pc = "walk0", !.attr_offset = attr_end, !.n_attrs = @ + 1,
              !.attr_end = 0, !.curr = 0, !.list_end = 0, !.list_zero = FALSE]

\* Lines 458-491: the non-resident $ATTRIBUTE_LIST is read through its own runs.
NonResidentList0(s, a, attr_end) ==
    LET run_off == s.attr_offset + a.dr_off
        al == parse_data_runs(RunArea(a.runbytes, attr_end - run_off), 0,
                              attr_end - run_off, a.start_vcn)
        covered_clusters == SeqSum([i \in 1..Len(al.runs) |-> al.runs[i].length])
        covered_bytes == covered_clusters * s.bytes_per_cluster
        al_logical_offset == a.start_vcn * s.bytes_per_cluster
    IN  IF a.dr_off < MIN_DR_OFF \/ run_off >= attr_end THEN Fatal(s)
        ELSE IF ~al.ok THEN Fatal(s)
        ELSE IF covered_bytes < a.actual_size THEN Fatal(s)
        ELSE IF a.actual_size = 0 \/ a.actual_size > MAX_ATTR_LIST_SIZE THEN Fatal(s)
        ELSE IF ~read_logical_mft(s.vol_len, al.runs, s.bytes_per_cluster,
                                  s.partition_offset, al_logical_offset,
                                  a.actual_size)
             THEN Fatal(s)
        ELSE [s EXCEPT !.pc = "list0", !.attr_end = attr_end,
                       !.curr = 0, !.list_end = a.actual_size,
                       !.list_zero = StartsSparse(al.runs, s.bytes_per_cluster,
                                                  al_logical_offset)]

\* Lines 519-536: record 0's unnamed non-resident $DATA.
BaseData0(s, a, attr_end) ==
    LET run_off == s.attr_offset + a.dr_off
        parsed == parse_data_runs(RunArea(a.runbytes, attr_end - run_off), 0,
                                  attr_end - run_off, a.start_vcn)
        alloc == IF s.attr_offset + ALLOC_FIELD_END <= attr_end
                 THEN a.allocated_size ELSE s.expected_allocated_size
    IN  IF a.dr_off < MIN_DR_OFF \/ run_off >= attr_end THEN Fatal(s)
        ELSE IF ~parsed.ok THEN Fatal(s)
        ELSE [NextAttr0(s, attr_end) EXCEPT
                  !.expected_allocated_size = alloc,
                  !.declared_alloc = @ \cup {a.allocated_size},
                  !.base_runs = s.base_runs \o parsed.runs]

\* The end of the header fields an iteration over record 0 reads from the
\* attribute at attr_offset, all of them before any of them is checked: the
\* flag and the name length (lines 417-418), value_len and value_off of a
\* resident $ATTRIBUTE_LIST (422-423), al_svcn, dr_off and actual_size of a
\* non-resident one (458-460), start_vcn and dr_off of the $DATA (521-522).
HeaderFieldsEnd0(a) ==
    IF a.attr_type = ATTR_ATTRIBUTE_LIST THEN (IF a.non_resident THEN 56 ELSE 22)
    ELSE IF a.attr_type = ATTR_DATA /\ a.name_len = 0 /\ a.non_resident THEN 34
    ELSE 10

\* The same for an extent record: lines 589-590, 593 and 595.
HeaderFieldsEndExtent(a, target) ==
    IF a.attr_type = ATTR_DATA /\ a.non_resident /\ a.name_len = 0
    THEN (IF a.start_vcn = target.start_vcn THEN 34 ELSE 24)
    ELSE 10

Walk0(s, a) ==
    LET attr_end == s.attr_offset + a.attr_len
        read_end == s.attr_offset + HeaderFieldsEnd0(a)
        r == [s EXCEPT !.field_past_attr_end = FALSE]
    IN  IF r.attr_offset + 8 > r.used_end THEN EndWalk0(r)
        ELSE IF r.attr_offset <= r.previous_offset /\ r.previous_offset # 0
             THEN Fatal(WalkViolation(r))
        ELSE IF a.attr_type = ATTR_END THEN EndWalk0(r)
        ELSE IF a.attr_len = 0 \/ attr_end > r.used_end THEN Fatal(WalkViolation(r))
        ELSE IF read_end > r.record_size THEN Panic(r)
        ELSE
        LET t == [r EXCEPT !.previous_offset = r.attr_offset,
                           !.field_past_attr_end = read_end > attr_end]
        IN  IF a.attr_type = ATTR_ATTRIBUTE_LIST THEN
                IF ~a.non_resident THEN
                    LET list_start == t.attr_offset + a.value_off
                        list_end == list_start + a.value_len
                    IN  IF list_start < t.attr_offset \/ list_end > attr_end
                        THEN Fatal(t)
                        ELSE [t EXCEPT !.pc = "list0", !.attr_end = attr_end,
                                       !.curr = list_start, !.list_end = list_end,
                                       !.list_zero = FALSE]
                ELSE NonResidentList0(t, a, attr_end)
            ELSE IF a.attr_type = ATTR_DATA /\ a.name_len = 0 /\ a.non_resident
                 THEN BaseData0(t, a, attr_end)
            ELSE NextAttr0(t, attr_end)

(***************************************************************************)
(* Lines 433-456 and 494-517: one iteration of the loop over the entries   *)
(* of the $ATTRIBUTE_LIST.  e is the entry at curr:                        *)
(*   [entry_type, entry_len, name_len, name_off, start_vcn, entry, seq]    *)
(***************************************************************************)
ListEntry(entry_type, entry_len, name_len, name_off, start_vcn, entry, seq) ==
    [entry_type |-> entry_type, entry_len |-> entry_len, name_len |-> name_len,
     name_off |-> name_off, start_vcn |-> start_vcn, entry |-> entry, seq |-> seq]

ExtentTarget(start_vcn, entry, seq) ==
    [start_vcn |-> start_vcn, entry |-> entry, seq |-> seq]

List0(s, e) ==
    IF s.curr + LIST_ENTRY_MIN > s.list_end THEN NextAttr0(s, s.attr_end)
    ELSE IF e.entry_type = 0 THEN NextAttr0(s, s.attr_end)
    ELSE IF e.entry_len < LIST_ENTRY_MIN \/ s.curr + e.entry_len > s.list_end
         THEN NextAttr0(s, s.attr_end)
    ELSE IF e.name_off + e.name_len * 2 > e.entry_len THEN Fatal(s)
    ELSE [s EXCEPT
            !.curr = @ + e.entry_len,
            !.n_list = @ + 1,
            !.attr_list_entries =
                IF e.entry_type = ATTR_DATA /\ e.name_len = 0 /\ e.entry # 0
                THEN Append(@, ExtentTarget(e.start_vcn, e.entry, e.seq))
                ELSE @]

(***************************************************************************)
(* Lines 548-573: the body of the loop over the extent targets up to the   *)
(* attribute walk.  h is the header decoded from the record fetched        *)
(* through base_runs.                                                      *)
(***************************************************************************)
\* The fetch without the comparison of the sequence numbers.
SequenceMismatchIgnored(h, target) == FALSE

\* Line 567.
SequenceMismatch(h, target) == h.sequence_number # target.seq

FetchExtent(s, h) ==
    IF s.target_idx > Len(s.attr_list_entries) THEN [s EXCEPT !.pc = "assemble"]
    ELSE
    LET target == s.attr_list_entries[s.target_idx]
        record_byte_offset == target.entry * s.record_size
    IN  IF ~read_logical_mft(s.vol_len, s.base_runs, s.bytes_per_cluster,
                             s.partition_offset, record_byte_offset, s.record_size)
        THEN Fatal(s)
        ELSE IF StartsSparse(s.base_runs, s.bytes_per_cluster, record_byte_offset)
             THEN Fatal(s)      \* a zero-filled buffer has no FILE signature
        ELSE IF h.signature \notin {"FILE", "BAAD"} THEN Fatal(s)
        ELSE IF ~validate_record_boundaries(h, s.record_size) THEN Fatal(s)
        ELSE IF SequenceMismatch(h, target)
             THEN Fatal([s EXCEPT !.seq_mismatch = TRUE])
        ELSE IF FixupFails(s.record_size, h.update_sequence_offset,
                           h.update_sequence_size, s.boot.bytes_per_sector)
             THEN Fatal(s)
        ELSE [s EXCEPT !.pc = "ext_walk", !.e_off = h.first_attribute_offset,
                       !.e_used = h.real_size, !.e_prev = 0, !.n_attrs = 0,
                       !.eh_sequence_number = h.sequence_number]

\* Line 608: the next target.
NextTarget(s) ==
    [s EXCEPT !.pc = "extents", !.target_idx = @ + 1,
              !.e_off = 0, !.e_used = 0, !.e_prev = 0, !.n_attrs = 0,
              !.eh_sequence_number = 0]

\* Lines 579-607: one iteration of the walk over the extent record's attributes.
WalkExtent(s, a) ==
    LET target == s.attr_list_entries[s.target_idx]
        e_attr_end == s.e_off + a.attr_len
        run_off == s.e_off + a.dr_off
        parsed == parse_data_runs(RunArea(a.runbytes, e_attr_end - run_off), 0,
                                  e_attr_end - run_off, target.start_vcn)
        read_end == s.e_off + HeaderFieldsEndExtent(a, target)
        r == [s EXCEPT !.field_past_attr_end = FALSE]
        t == [r EXCEPT !.field_past_attr_end = read_end > e_attr_end]
        next == [t EXCEPT !.e_prev = s.e_off, !.e_off = e_attr_end,
                          !.n_attrs = @ + 1]
    IN  IF s.e_off + 8 > s.e_used THEN NextTarget(r)
        ELSE IF s.e_off <= s.e_prev /\ s.e_prev # 0 THEN NextTarget(WalkViolation(r))
        ELSE IF a.attr_type = ATTR_END THEN NextTarget(r)
        ELSE IF a.attr_len = 0 \/ e_attr_end > s.e_used
             THEN NextTarget(WalkViolation(r))      \* lines 580 and 586: break
        ELSE IF read_end > s.record_size THEN Panic(r)
        ELSE IF /\ a.attr_type = ATTR_DATA /\ a.non_resident /\ a.name_len = 0
                /\ a.start_vcn = target.start_vcn
             THEN IF a.dr_off < MIN_DR_OFF \/ run_off >= e_attr_end THEN Fatal(t)
                  ELSE IF ~parsed.ok THEN Fatal(t)
                  ELSE [next EXCEPT
                            !.all_runs = s.all_runs \o parsed.runs,
                            !.contributed =
                                IF parsed.runs = <<>>
                                     \/ \E c \in s.contributed : c.idx = s.target_idx
                                THEN @
                                ELSE @ \cup {[idx |-> s.target_idx,
                                              vcn_start |-> parsed.runs[1].vcn_start]}]
        ELSE next

(***************************************************************************)
(* Lines 610-626: sort, check the VCN chain, compute the size.             *)
(***************************************************************************)
\* sort_by_key(|r| r.vcn_start): a stable sort.
RECURSIVE InsertByVcn(_, _)
InsertByVcn(sorted, r) ==
    IF sorted = <<>> THEN <<r>>
    ELSE IF sorted[Len(sorted)].vcn_start <= r.vcn_start THEN Append(sorted, r)
    ELSE Append(InsertByVcn(SubSeq(sorted, 1, Len(sorted) - 1), r),
                sorted[Len(sorted)])

sort_by_vcn_start(runs) ==
    LET RECURSIVE Go(_)
        Go(n) == IF n = 0 THEN <<>> ELSE InsertByVcn(Go(n - 1), runs[n])
    IN  Go(Len(runs))

\* The test of line 617 alone: a hole, but not an overlap.
VcnMismatchGapOnly(run, expected_vcn) == run.vcn_start > expected_vcn

\* Lines 617-618: a hole or an overlap at this run.
VcnMismatch(run, expected_vcn) ==
    run.vcn_start > expected_vcn \/ run.vcn_start < expected_vcn

\* Lines 615-620: the final expected_vcn, or -1 when a run is fatal.
CheckVcnChain(runs) ==
    LET RECURSIVE Go(_, _)
        Go(i, expected_vcn) ==
            IF i > Len(runs) THEN expected_vcn
            ELSE IF VcnMismatch(runs[i], expected_vcn) THEN -1
            ELSE Go(i + 1, expected_vcn + runs[i].length)
    IN  Go(1, 0)

\* Line 624.
AllocatedSizeShort(expected_total_bytes, expected_allocated_size) ==
    expected_allocated_size > 0 /\ expected_total_bytes < expected_allocated_size

Assemble(s) ==
    LET all_runs == sort_by_vcn_start(s.all_runs)
        expected_vcn == CheckVcnChain(all_runs)
        expected_total_bytes == expected_vcn * s.bytes_per_cluster
    IN  IF all_runs = <<>> THEN Fatal(s)
        ELSE IF all_runs[1].vcn_start # 0 THEN Fatal(s)
        ELSE IF expected_vcn = -1 THEN Fatal(s)
        ELSE IF AllocatedSizeShort(expected_total_bytes, s.expected_allocated_size)
             THEN Fatal(s)
        ELSE [s EXCEPT !.pc = "create", !.all_runs = all_runs,
                       !.expected_total_bytes = expected_total_bytes]

(***************************************************************************)
(* Lines 628-665: create the output, then copy run by run, chunk by chunk. *)
(***************************************************************************)
\* The sidecar written together with the creation of the output.
CreateOutSidecarFirst(s, ok, same_file) ==
    IF ~ok THEN Fatal(s)
    ELSE [s EXCEPT !.pc = "copy_run", !.out_created = TRUE, !.out_file = <<>>,
                   !.extracted_bytes = 0, !.run_idx = 1, !.sidecar = TRUE]

\* Lines 628-633.  File::create(out) opens out for writing and truncates it;
\* same_file is whether out names the file that was opened as the source
\* (nothing compares the two paths): that file is then empty.
CreateOut(s, ok, same_file) ==
    IF ~ok THEN Fatal(s)
    ELSE [s EXCEPT !.pc = "copy_run", !.out_created = TRUE, !.out_file = <<>>,
                   !.extracted_bytes = 0, !.run_idx = 1,
                   !.same_file = same_file,
                   !.vol_len = IF same_file THEN 0 ELSE @,
                   !.source_modified = same_file]

\* The offset of a run counted from the start of the source, not of the partition.
RunOffsetNoPartition(s, run) == run.lcn * s.bytes_per_cluster

\* Line 650.
RunOffset(s, run) == s.partition_offset + run.lcn * s.bytes_per_cluster

\* Lines 635-653: the head of the for loop; a non-sparse run seeks the source.
CopyRun(s) ==
    IF s.run_idx > Len(s.all_runs) THEN [s EXCEPT !.pc = "verify"]
    ELSE LET run == s.all_runs[s.run_idx]
             bytes_to_read == run.length * s.bytes_per_cluster
         IN  [s EXCEPT !.pc = "copy_chunk", !.remaining = bytes_to_read,
                       !.vol_pos = IF run.is_sparse THEN @ ELSE RunOffset(s, run)]

\* Lines 641-646 and 655-664: one iteration of the inner while loop.  write_ok
\* is whether write_all succeeds; read_exact fails at the end of the source.
CopyChunk(s, write_ok) ==
    LET run == s.all_runs[s.run_idx]
        n == Min(s.remaining, CHUNK_SIZE)
        \* the source grows with the output when they are one file
        grown == IF s.same_file THEN FileLen(s.out_file) + n ELSE s.vol_len
    IN  IF s.remaining = 0 THEN [s EXCEPT !.pc = "copy_run", !.run_idx = @ + 1]
        ELSE IF run.is_sparse THEN
            IF ~write_ok THEN Fatal(s)
            ELSE [s EXCEPT !.out_file = write_all(@, Segment("zero", 0, n)),
                           !.remaining = @ - n, !.extracted_bytes = @ + n,
                           !.vol_len = grown]
        ELSE IF s.vol_pos + n > s.vol_len THEN Fatal(s)
        ELSE IF ~write_ok THEN Fatal(s)
        ELSE [s EXCEPT !.out_file = write_all(@, Segment("src", s.vol_pos, n)),
                       !.vol_pos = @ + n,
                       !.remaining = @ - n, !.extracted_bytes = @ + n,
                       !.vol_len = grown]

\* Line 667.
Verify(s) ==
    IF s.extracted_bytes # s.expected_total_bytes THEN Fatal(s)
    ELSE [s EXCEPT !.pc = "sidecar"]

\* Lines 671-681: the sidecar is written when its file can be created; a
\* failure to create it is ignored.
WriteSidecar(s, ok) == [s EXCEPT !.pc = "done", !.sidecar = ok]

(***************************************************************************)
(* What the extractor reads from the source: the values the model draws.   *)
(***************************************************************************)
BootSector(bps, spc, cpfrs, mft_lcn) ==
    [bytes_per_sector |-> bps, sectors_per_cluster |-> spc,
     clusters_per_file_record_segment |-> cpfrs, mft_lcn |-> mft_lcn]

\* 512-byte clusters with 1024-byte records, 4096-byte clusters with
\* 1024-byte records, and boot sectors validate_vbr refuses.
BootSectors ==
    { BootSector(512, 1, -10, 2), BootSector(512, 8, -10, 2),
      BootSector(256, 1, -10, 2), BootSector(512, 3, -10, 2),
      BootSector(512, 1, 0, 2), BootSector(512, 1, -10, 0),
      BootSector(512, 1, 1, 2) }

PartitionOffsets == {0, 32256}

VolLens == {16777216}

RecordHeader(signature, real_size, first_attribute_offset, usa_offset, usa_count, sequence_number, base_record_reference) ==
    [signature |-> signature, real_size |-> real_size,
     first_attribute_offset |-> first_attribute_offset,
     update_sequence_offset |-> usa_offset, update_sequence_size |-> usa_count,
     sequence_number |-> sequence_number,
     base_record_reference |-> base_record_reference]

\* The last header fills the record: its first attribute is 24 bytes before
\* the end of the buffer.
Record0Headers ==
    { RecordHeader(sig, rsz, 56, 48, cnt, 1, 0) :
        sig \in {"FILE", "BAAD", "JUNK"}, rsz \in {47, 63, 280}, cnt \in {1, 3} }
    \cup { RecordHeader("FILE", 1024, 1000, 48, 3, 1, 0) }

ExtentHeaders ==
    { RecordHeader(sig, rsz, 56, 48, cnt, seq, 1) :
        sig \in {"FILE", "BAAD"}, rsz \in {63, 280}, cnt \in {1, 3}, seq \in {1, 2} }

Vcns == 0..2

AllocSizes == {0, 4096}

AttrLens == {0, 8, 24, 72, 80}

DrOffs == {32, 64, 70}

\* Mapping pairs: 17 = 0x11 is a header with one length byte and one offset byte,
\* 1 a sparse header with one length byte, 2 one with two length bytes.
Runlists ==
    { <<>>,
      <<17, 1, 1>>,                 \* one cluster at lcn 1
      <<1, 1>>,                     \* one sparse cluster
      <<17, 4, 2, 1, 1>>,           \* four clusters at lcn 2, then a sparse one
      <<17, 2, 2, 17, 1, 255>>,     \* lcn 2, then delta -1: lcn 1
      <<2, 1, 17>>,                 \* 4353 sparse clusters
      <<18, 1, 17, 1>>,             \* 4353 clusters at lcn 1
      <<17, 0, 1>> }                \* a run of length 0

ExtentRunlists == { <<17, 1, 1>>, <<17, 2, 3>>, <<1, 1>>, <<17, 1, 255>> }

EndAttr == Attr(ATTR_END, 0, FALSE, 0, 0, 0, 0, 0, 0, 0, <<>>)

PlainAttrs ==
    { Attr(t, len, nr, nm, 0, 0, 0, 0, 0, 0, <<>>) :
        t \in {ATTR_STANDARD_INFORMATION}, len \in AttrLens, nr \in {FALSE},
        nm \in {0} }
    \cup { Attr(ATTR_DATA, len, nr, 1 - (IF nr THEN 0 ELSE 1), 0, 0, 64, 0, 0, 0, <<17, 1, 1>>) :
        len \in {72}, nr \in BOOLEAN }

DataAttrs ==
    { Attr(ATTR_DATA, len, TRUE, 0, svcn, alloc, dr, 0, 0, 0, rb) :
        len \in {24, 72}, svcn \in Vcns, alloc \in AllocSizes, dr \in DrOffs,
        rb \in Runlists }

ListAttrs ==
    { Attr(ATTR_ATTRIBUTE_LIST, len, FALSE, 0, 0, 0, 0, 0, vlen, 24, <<>>) :
        len \in {80}, vlen \in {26, 52, 200} }
    \cup { Attr(ATTR_ATTRIBUTE_LIST, 72, TRUE, 0, 0, 0, dr, asz, 0, 0, rb) :
        dr \in DrOffs, asz \in {0, 52, 2000000},
        rb \in {<<17, 1, 1>>, <<1, 1>>, <<17, 0, 1>>} }

Rec0Attrs == {EndAttr} \cup PlainAttrs \cup DataAttrs \cup ListAttrs

ExtentAttrs ==
    {EndAttr} \cup PlainAttrs
    \cup { Attr(ATTR_DATA, len, TRUE, 0, svcn, 0, dr, 0, 0, 0, rb) :
            len \in {72}, svcn \in Vcns, dr \in {32, 64}, rb \in ExtentRunlists }

ListEntries ==
    { ListEntry(t, len, nm, 26, svcn, entry, 1) :
        t \in {0, ATTR_FILE_NAME, ATTR_DATA}, len \in {8, 26}, nm \in {0, 1},
        svcn \in Vcns, entry \in {0, 1} }

EndEntry == ListEntry(0, 26, 0, 26, 0, 0, 1)

(***************************************************************************)
(* The extractor's actions: one per step of extract::run.                  *)
(***************************************************************************)
ExInit ==
    /\ ex \in { ExStart(b, po, vl) :
                b \in BootSectors, po \in PartitionOffsets, vl \in VolLens }
    /\ loc = Idle /\ fx = Idle /\ pa = Idle /\ pb = Idle

ExReadVbr ==
    /\ ex.pc = "start"
    /\ ex' = ReadVbr(ex)
    /\ UNCHANGED <<loc, fx, pa, pb>>

ExReadRecord0 ==
    /\ ex.pc = "record0"
    /\ \E h \in Record0Headers : ex' = ReadRecord0(ex, h)
    /\ UNCHANGED <<loc, fx, pa, pb>>

ExWalk0 ==
    /\ ex.pc = "walk0"
    /\ \E a \in (IF ex.n_attrs >= MaxAttrs THEN {EndAttr} ELSE Rec0Attrs) :
            ex' = Walk0(ex, a)
    /\ UNCHANGED <<loc, fx, pa, pb>>

ExList0 ==
    /\ ex.pc = "list0"
    /\ \E e \in (IF ex.n_list >= MaxTargets \/ ex.list_zero
                 THEN {EndEntry} ELSE ListEntries) :
            ex' = List0(ex, e)
    /\ UNCHANGED <<loc, fx, pa, pb>>

ExFetchExtent ==
    /\ ex.pc = "extents"
    /\ \E h \in ExtentHeaders : ex' = FetchExtent(ex, h)
    /\ UNCHANGED <<loc, fx, pa, pb>>

ExWalkExtent ==
    /\ ex.pc = "ext_walk"
    /\ \E a \in (IF ex.n_attrs >= MaxAttrs THEN {EndAttr} ELSE ExtentAttrs) :
            ex' = WalkExtent(ex, a)
    /\ UNCHANGED <<loc, fx, pa, pb>>

ExAssemble ==
    /\ ex.pc = "assemble"
    /\ ex' = Assemble(ex)
    /\ UNCHANGED <<loc, fx, pa, pb>>

ExCreateOut ==
    /\ ex.pc = "create"
    /\ \E ok \in BOOLEAN, same_file \in BOOLEAN : ex' = CreateOut(ex, ok, same_file)
    /\ UNCHANGED <<loc, fx, pa, pb>>

ExCopyRun ==
    /\ ex.pc = "copy_run"
    /\ ex' = CopyRun(ex)
    /\ UNCHANGED <<loc, fx, pa, pb>>

ExCopyChunk ==
    /\ ex.pc = "copy_chunk"
    /\ \E write_ok \in BOOLEAN : ex' = CopyChunk(ex, write_ok)
    /\ UNCHANGED <<loc, fx, pa, pb>>

ExVerify ==
    /\ ex.pc = "verify"
    /\ ex' = Verify(ex)
    /\ UNCHANGED <<loc, fx, pa, pb>>

ExWriteSidecar ==
    /\ ex.pc = "sidecar"
    /\ \E ok \in BOOLEAN : ex' = WriteSidecar(ex, ok)
    /\ UNCHANGED <<loc, fx, pa, pb>>

ExNext ==
    \/ ExReadVbr \/ ExReadRecord0 \/ ExWalk0 \/ ExList0
    \/ ExFetchExtent \/ ExWalkExtent \/ ExAssemble
    \/ ExCreateOut \/ ExCopyRun \/ ExCopyChunk \/ ExVerify \/ ExWriteSidecar

SpecExtract == ExInit /\ [][ExNext]_vars

(***************************************************************************)
(* Properties of the extractor.                                            *)
(***************************************************************************)
CopyPhase == ex.pc \in {"create", "copy_run", "copy_chunk", "verify", "sidecar", "done"}

Accepted == ex.pc \in {"sidecar", "done"}

TotalClusters(runs) == SeqSum([i \in 1..Len(runs) |-> runs[i].length])

\* C1: whenever extract has reached the copy phase, all_runs is not empty, is
\* sorted by vcn_start, starts at VCN 0, and each run starts where the one before
\* it ends.
C1_RunsContiguous ==
    CopyPhase =>
        /\ ex.all_runs # <<>>
        /\ ex.all_runs[1].vcn_start = 0
        /\ \A i, j \in 1..Len(ex.all_runs) :
              i < j => ex.all_runs[i].vcn_start <= ex.all_runs[j].vcn_start
        /\ \A i \in 1..(Len(ex.all_runs) - 1) :
              ex.all_runs[i].vcn_start + ex.all_runs[i].length
                  = ex.all_runs[i + 1].vcn_start

\* The copy phase is reached with three or more runs, some of them from an
\* extent record, that were appended out of VCN order: record 0's runs are not
\* the head of the sorted list.
C1_Witness ==
    /\ ex.pc = "copy_run"
    /\ Len(ex.all_runs) >= 3
    /\ Len(ex.all_runs) > Len(ex.base_runs)
    /\ ex.base_runs # SubSeq(ex.all_runs, 1, Len(ex.base_runs))

\* C2: an extraction is accepted only if the runs cover at least the
\* allocated_size declared by the header of an unnamed non-resident $DATA
\* attribute of record 0.
C2_AcceptedCoversDeclared ==
    Accepted =>
        \A d \in ex.declared_alloc :
            TotalClusters(ex.all_runs) * ex.bytes_per_cluster >= d

\* The output a successful extraction must have produced: run by run, zeros
\* for a sparse run and the source bytes at partition_offset + lcn * bpc else.
ExpectedOutput(s) ==
    LET RECURSIVE Go(_)
        Go(n) ==
            IF n = 0 THEN <<>>
            ELSE LET run == s.all_runs[n]
                     len == run.length * s.bytes_per_cluster
                 IN  write_all(Go(n - 1),
                        IF run.is_sparse THEN Segment("zero", 0, len)
                        ELSE Segment("src",
                                 s.partition_offset + run.lcn * s.bytes_per_cluster,
                                 len))
    IN  Go(Len(s.all_runs))

\* C3: on a successful extraction the output is the concatenation, in
\* ascending VCN order, of length * bytes_per_cluster bytes per run (zeros for
\* a sparse run, the source bytes at partition_offset + lcn * bytes_per_cluster
\* otherwise), and the number of bytes written is expected_total_bytes.
C3_OutputIsConcatenation ==
    Accepted =>
        /\ ex.out_file = ExpectedOutput(ex)
        /\ FileLen(ex.out_file) = ex.expected_total_bytes
        /\ ex.extracted_bytes = ex.expected_total_bytes
        /\ ex.expected_total_bytes = TotalClusters(ex.all_runs) * ex.bytes_per_cluster

\* A successful extraction from a partition that does not start at byte 0,
\* of a sparse run between two stored runs, written in more than one chunk.
C3_Witness ==
    /\ ex.pc = "done"
    /\ ex.partition_offset > 0
    /\ Len(ex.out_file) >= 3
    /\ \E i \in 1..Len(ex.out_file) : ex.out_file[i].kind = "zero"
    /\ ex.extracted_bytes > CHUNK_SIZE

\* C4: the output of an accepted extraction has a length that is a multiple of
\* record_size.
C4_OutputMultipleOfRecordSize ==
    Accepted => FileLen(ex.out_file) % ex.record_size = 0

\* C5: the sidecar exists only once the copy loop has gone through all runs
\* and extracted_bytes equals expected_total_bytes; an aborted run has none.
C5_SidecarAfterCopy ==
    /\ ex.sidecar =>
          /\ ex.pc = "done"
          /\ ex.run_idx > Len(ex.all_runs)
          /\ ex.extracted_bytes = ex.expected_total_bytes
          /\ FileLen(ex.out_file) = ex.expected_total_bytes
    /\ ex.pc = "aborted" => ~ex.sidecar

\* An extraction that got its sidecar after copying several runs in several chunks.
C5_Witness ==
    /\ ex.pc = "done" /\ ex.sidecar
    /\ Len(ex.all_runs) >= 2
    /\ ex.extracted_bytes > 2 * CHUNK_SIZE

\* An extraction aborted in the middle of the copy: output started, no sidecar.
C5_AbortedDuringCopy ==
    ex.pc = "aborted" /\ ex.out_created /\ ex.out_file # <<>>

\* C12: a violation of an attribute-walk invariant (attribute length 0,
\* attribute past the used end of the record, offset that does not grow), in
\* record 0 or in an extent record, aborts the extraction: the extraction never
\* goes on after one.
C12_WalkViolationAborts == ex.walk_violation => ex.pc = "aborted"

\* An extraction accepted although the walk of an extent record met a violation.
C12_AcceptedAfterViolation == Accepted /\ ex.walk_violation

\* A violation in record 0 aborted the extraction.
C12_AbortedInRecord0 == ex.pc = "aborted" /\ ex.walk_violation

\* C28: in an accepted extraction every extent target collected from record
\* 0's $ATTRIBUTE_LIST has added at least one run to the run list, and the
\* first run it added starts at the target's start_vcn.
C28_EveryTargetContributes ==
    Accepted =>
        \A k \in 1..Len(ex.attr_list_entries) :
            \E c \in ex.contributed :
                /\ c.idx = k
                /\ c.vcn_start = ex.attr_list_entries[k].start_vcn

\* An extraction accepted with an extent target that added no run, every
\* attribute walk having ended regularly.
C28_AcceptedWithoutExtent ==
    /\ ex.pc = "done"
    /\ ex.attr_list_entries # <<>>
    /\ ex.contributed = {}
    /\ ~ex.walk_violation

\* Whatever an extent target added begins at its start_vcn.
C28_FirstRunAtStartVcn ==
    \A c \in ex.contributed :
        c.vcn_start = ex.attr_list_entries[c.idx].start_vcn

\* C13: an extent record whose sequence_number differs from the one its
\* $ATTRIBUTE_LIST entry carries aborts the extraction: the walk that adds the
\* extent's runs is entered only with equal sequence numbers, and after a
\* mismatch the extraction is aborted with no sidecar.
C13_SequenceMismatchAborts ==
    /\ ex.pc = "ext_walk" =>
          ex.eh_sequence_number = ex.attr_list_entries[ex.target_idx].seq
    /\ ex.seq_mismatch => (ex.pc = "aborted" /\ ~ex.sidecar /\ ~ex.out_created)

\* An extraction aborted on the sequence number of an extent record.
C13_Witness == ex.pc = "aborted" /\ ex.seq_mismatch

\* C14: while extract walks the attributes of record 0 and of the extent
\* records, no byte index read is at or behind record_size, and no attribute
\* header field read lies at or behind the attribute's end attr_end.
C14_ReadsInsideAttribute == ~ex.index_out_of_range /\ ~ex.field_past_attr_end

\* The walk of record 0 indexed the buffer behind its end.
C14_IndexOutOfRange == ex.index_out_of_range

\* The walk went on after reading a header field behind the attribute's end.
C14_FieldPastEndUsed == ex.pc \in {"walk0", "ext_walk"} /\ ex.field_past_attr_end

\* C17: no step of extract changes the source, whatever image and out are.
C17_SourceUnchanged == ~ex.source_modified

\* The source emptied by the creation of the output, and the extraction
\* aborted on the read that follows.
C17_SourceLost ==
    ex.pc = "aborted" /\ ex.source_modified /\ ex.vol_len = 0

(***************************************************************************)
(* Lines 339-348 of extract.rs: the image argument becomes volume_path,    *)
(* the name the source is opened under.  A string is the sequence of its   *)
(* characters; image.len() and the slice image[0..2] count bytes of UTF-8. *)
(***************************************************************************)
MaxImageLen == 4    \* characters of the image argument

Chars == {"C", ":", "7", "e_acute"}    \* the last one stands for U+00E9: two bytes

is_ascii_alphabetic(c) == c = "C"

ByteLen(c) == IF c = "e_acute" THEN 2 ELSE 1

StrLen(str) == SeqSum([k \in 1..Len(str) |-> ByteLen(str[k])])

Images == UNION { [1..n -> Chars] : n \in 0..MaxImageLen }

RAW_DEVICE_PREFIX == <<"\\", "\\", ".", "\\">>

\* image[0..n]: the characters that make up the first n bytes; a panic when
\* the string is shorter or byte n is inside a character.
SliceTo(str, n) ==
    IF \E k \in 0..Len(str) : StrLen(SubSeq(str, 1, k)) = n
    THEN [ok |-> TRUE,
          str |-> SubSeq(str, 1, CHOOSE k \in 0..Len(str) : StrLen(SubSeq(str, 1, k)) = n)]
    ELSE [ok |-> FALSE, str |-> <<>>]

\* Line 339.
Rewrites(image) ==
    StrLen(image) <= 3 /\ image # <<>> /\ is_ascii_alphabetic(image[1])

ArgsStart(image) ==
    [pc |-> "args", image |-> image, volume_path |-> <<>>, panicked |-> FALSE]

\* Lines 339-346: volume_path, then File::open(&volume_path).
OpenVolume(s) ==
    IF Rewrites(s.image) THEN
        IF SliceTo(s.image, 2).ok
        THEN [s EXCEPT !.pc = "opened",
                       !.volume_path = RAW_DEVICE_PREFIX \o SliceTo(s.image, 2).str]
        ELSE [s EXCEPT !.pc = "aborted", !.panicked = TRUE]
    ELSE [s EXCEPT !.pc = "opened", !.volume_path = s.image]

ArgsInit ==
    /\ ex \in { ArgsStart(image) : image \in Images }
    /\ loc = Idle /\ fx = Idle /\ pa = Idle /\ pb = Idle

ArgsOpen ==
    /\ ex.pc = "args"
    /\ ex' = OpenVolume(ex)
    /\ UNCHANGED <<loc, fx, pa, pb>>

ArgsNext == ArgsOpen

SpecArgs == ArgsInit /\ [][ArgsNext]_vars

\* C16: the image argument is rewritten to the raw-device form, the prefix
\* followed by its first two characters, exactly when it is two or three
\* characters long and begins with an ASCII letter; every other argument, a
\* one-character one included, is passed through unchanged and opened.
C16_RewrittenExactlyWhen ==
    ex.pc # "args" =>
        IF Len(ex.image) \in {2, 3} /\ is_ascii_alphabetic(ex.image[1])
        THEN /\ ex.pc = "opened"
             /\ ex.volume_path = RAW_DEVICE_PREFIX \o SubSeq(ex.image, 1, 2)
        ELSE /\ ex.pc = "opened"
             /\ ex.volume_path = ex.image

\* The one-character argument "C": no source is opened.
C16_OneLetterPanics ==
    ex.pc = "aborted" /\ ex.panicked /\ ex.image = <<"C">>

\* "C:" is opened as the raw device.
C16_DriveRewritten ==
    ex.pc = "opened" /\ ex.image = <<"C", ":">>
        /\ ex.volume_path = <<"\\", "\\", ".", "\\", "C", ":">>

(***************************************************************************)
(* parse_data_runs on its own: the record is a sequence of at most         *)
(* MaxPairs mapping pairs, well-formed and not, the attribute ends at the  *)
(* end of the record or up to MaxCut bytes before it, and one step is one  *)
(* iteration of the loop.                                                  *)
(***************************************************************************)
MaxPairs == 3       \* mapping pairs in the record
MaxCut == 2         \* bytes of the record behind attr_end

I64_MAX == [i \in 1..WORD_BYTES |-> IF i < WORD_BYTES THEN 255 ELSE 127]
U64_MAX == [i \in 1..WORD_BYTES |-> 255]

RunPairs ==
    { <<0>>,                                            \* the terminator
      <<1, 1>>,                                         \* 0x01: one sparse cluster
      <<1, 0>>,                                         \* 0x01: length 0
      <<17, 2, 3>>,                                     \* 0x11: two clusters, delta 3
      <<17, 1, 255>>,                                   \* 0x11: delta FF, -1
      <<33, 1, 0, 128>>,                                \* 0x21: delta 00 80, -32768
      <<33, 1, 128, 0>>,                                \* 0x21: delta 80 00, 128
      <<16, 5>>,                                        \* 0x10: len_bytes 0
      <<145, 1>>,                                       \* 0x91: off_bytes 9
      <<9, 1>>,                                         \* 0x09: len_bytes 9
      <<129, 1, 255, 255, 255, 255, 255, 255, 255, 127>>,   \* 0x81: delta i64::MAX
      <<8, 255, 255, 255, 255, 255, 255, 255, 255>> }   \* 0x08: sparse, length u64::MAX

RECURSIVE Flatten(_)
Flatten(seqs) == IF seqs = <<>> THEN <<>> ELSE Head(seqs) \o Flatten(Tail(seqs))

RunRecords == { Flatten(ps) : ps \in UNION { [1..n -> RunPairs] : n \in 0..MaxPairs } }

StartVcns == { ZeroWord, IntWord(1), U64_MAX }

RunsInit ==
    /\ \E record \in RunRecords, start_vcn \in StartVcns, cut \in 0..MaxCut :
          /\ cut <= Len(record)
          /\ ex = RunsStart(record, 0, Len(record) - cut, start_vcn)
    /\ loc = Idle /\ fx = Idle /\ pa = Idle /\ pb = Idle

RunsStep ==
    /\ ex.pc = "loop"
    /\ ex' = ParseRunsPair(ex)
    /\ UNCHANGED <<loc, fx, pa, pb>>

RunsNext == RunsStep

SpecRuns == RunsInit /\ [][RunsNext]_vars

\* The pair whose header is at offset at, as the bytes of the record give it.
HeaderAt(at) == ex.record[at + 1]
LenBytesAt(at) == HeaderAt(at) % 16
OffBytesAt(at) == HeaderAt(at) \div 16

NibblesRejected(at) ==
    LenBytesAt(at) = 0 \/ LenBytesAt(at) > 8 \/ OffBytesAt(at) > 8

PairCrosses(at) == at + 1 + LenBytesAt(at) + OffBytesAt(at) > ex.attr_end

LengthIsZero(at) == \A i \in 1..LenBytesAt(at) : ex.record[at + 1 + i] = 0

PairRejected(at) ==
    \/ NibblesRejected(at)
    \/ PairCrosses(at)
    \/ LengthIsZero(at)

LastExamined == ex.examined[Len(ex.examined)]

\* C19: a pair with a non-zero header is an error, and no runs are returned,
\* when its len_bytes is 0 or above 8, its off_bytes is above 8, its bytes
\* cross attr_end or its length is 0, and every pair before an accepted one
\* has none of these faults; a header byte 0 or run_off at attr_end ends the
\* call normally, and it returns the runs decoded so far.
C19_RejectsAndEnds ==
    /\ [](/\ Len(ex.runs) <= Len(ex.examined)
          /\ \A j \in 1..Len(ex.examined) :
                /\ ex.examined[j] < ex.attr_end
                /\ HeaderAt(ex.examined[j]) # 0
                /\ j <= Len(ex.runs) => ~PairRejected(ex.examined[j])
          /\ (ex.examined # <<>> /\ PairRejected(LastExamined)) =>
                (ex.pc = "err" /\ Returned(ex) = [ok |-> FALSE, runs |-> <<>>])
          /\ ex.pc = "err" => ex.examined # <<>>
          /\ ex.pc = "ok" =>
                /\ ex.run_off >= ex.attr_end \/ HeaderAt(ex.run_off) = 0
                /\ Len(ex.runs) = Len(ex.examined)
                /\ Returned(ex) = [ok |-> TRUE, runs |-> ex.runs])
    /\ [][(ex.pc = "loop" /\ (ex.run_off >= ex.attr_end \/ HeaderAt(ex.run_off) = 0))
            => (ex'.pc = "ok" /\ Returned(ex') = [ok |-> TRUE, runs |-> ex.runs])]_vars

\* One run decoded, then a pair whose bytes cross attr_end: an error.
C19_Witness ==
    /\ ex.pc = "err"
    /\ Len(ex.runs) = 1 /\ Len(ex.examined) = 2
    /\ ~NibblesRejected(LastExamined)
    /\ PairCrosses(LastExamined)

\* The signed value of the off_bytes bytes of the pair at offset at, for a
\* pair of at most three of them.
SignedAt(at) ==
    LET n == OffBytesAt(at)
        base == at + 1 + LenBytesAt(at)
        RECURSIVE U(_)
        U(i) == IF i > n THEN 0 ELSE ex.record[base + i] + 256 * U(i + 1)
    IN  IF n = 0 THEN 0
        ELSE IF ex.record[base + n] >= 128 THEN U(1) - Pow2(8 * n)
        ELSE U(1)

RECURSIVE SumTo(_)
SumTo(k) == IF k = 0 THEN 0 ELSE SumTo(k - 1) + SignedAt(ex.examined[k])

SmallTo(k) == \A j \in 1..k : OffBytesAt(ex.examined[j]) <= 3

\* The accumulator after the first k runs: the lcn of the last of them that
\* is not sparse.
RECURSIVE AccAfter(_)
AccAfter(k) ==
    IF k = 0 THEN ZeroWord
    ELSE IF ex.runs[k].is_sparse THEN AccAfter(k - 1)
    ELSE ex.runs[k].lcn

\* a > b as unsigned words.
WordGreater(a, b) ==
    \E i \in 1..WORD_BYTES : a[i] > b[i] /\ \A j \in (i + 1)..WORD_BYTES : a[j] = b[j]

\* The offset bytes of the pair at offset at, as an unsigned word.
DeltaBytesAt(at) ==
    [i \in 1..WORD_BYTES |->
        IF i <= OffBytesAt(at) THEN ex.record[at + 1 + LenBytesAt(at) + i] ELSE 0]

\* C20: the lcn of a non-sparse run is the sum of the signed deltas of the
\* pairs up to it, each sign-extended from its last byte; a pair without
\* offset bytes is emitted sparse with lcn 0 and leaves the accumulator as it
\* was; a negative sum at a non-sparse pair is an error, and so is a sum
\* above i64::MAX or a running VCN above u64::MAX.
C20_LcnIsRunningSum ==
    /\ \A k \in 1..Len(ex.runs) :
          /\ ex.runs[k].is_sparse <=> OffBytesAt(ex.examined[k]) = 0
          /\ ex.runs[k].is_sparse => ex.runs[k].lcn = ZeroWord
          /\ (~ex.runs[k].is_sparse /\ SmallTo(k)) =>
                (SumTo(k) >= 0 /\ ex.runs[k].lcn = IntWord(SumTo(k)))
    /\ ex.pc \in {"loop", "ok"} => ex.current_lcn = AccAfter(Len(ex.runs))
    /\ ex.runs # <<>> => ex.runs[1].vcn_start = ex.start_vcn
    /\ (ex.examined # <<>> /\ ~PairRejected(LastExamined)) =>
          /\ (OffBytesAt(LastExamined) > 0 /\ SmallTo(Len(ex.examined))
                /\ SumTo(Len(ex.examined)) < 0) => ex.pc = "err"
          /\ (/\ OffBytesAt(LastExamined) > 0
              /\ ex.record[LastExamined + 1 + LenBytesAt(LastExamined)
                              + OffBytesAt(LastExamined)] < 128
              /\ WordGreater(DeltaBytesAt(LastExamined),
                             [i \in 1..WORD_BYTES |->
                                 I64_MAX[i] - AccAfter(Len(ex.examined) - 1)[i]]))
                => ex.pc = "err"
          /\ (/\ Len(ex.runs) = Len(ex.examined)
              /\ WordGreater(ex.runs[Len(ex.runs)].length,
                             [i \in 1..WORD_BYTES |->
                                 U64_MAX[i] - ex.runs[Len(ex.runs)].vcn_start[i]]))
                => ex.pc = "err"

\* Delta 3, a sparse pair, delta FF: the runs are at lcn 3, sparse, and lcn 2.
C20_Witness ==
    /\ ex.pc = "ok"
    /\ Len(ex.runs) = 3
    /\ ex.runs[1].lcn = IntWord(3)
    /\ ex.runs[2].is_sparse /\ ex.runs[2].lcn = ZeroWord
    /\ ~ex.runs[3].is_sparse /\ ex.runs[3].lcn = IntWord(2)

\* The accumulator at i64::MAX and a further positive delta: an error.
C20_LcnOverflow ==
    /\ ex.pc = "err"
    /\ Len(ex.runs) = 1 /\ ex.runs[1].lcn = I64_MAX
    /\ Len(ex.examined) = 2 /\ HeaderAt(LastExamined) = 17
    /\ ~PairRejected(LastExamined)

\* A run pushed at the last VCN and the running VCN past u64::MAX: an error.
C20_VcnOverflow ==
    /\ ex.pc = "err"
    /\ Len(ex.runs) = Len(ex.examined)
    /\ ex.runs # <<>> /\ ex.runs[Len(ex.runs)].vcn_start = U64_MAX

(***************************************************************************)
(* validate_record_boundaries on its own: a header MftRecordHeader::parse  *)
(* has returned, with real_size and first_attribute_offset around the      *)
(* header size and around record_size.                                     *)
(***************************************************************************)
ValRecordSizes == {1024, 4096}

ValRealSizes == {0, 47, 48, 55, 56, 57} \cup 1016..1025 \cup {4096, 4097}

ValOffsets == {0, 40, 41, 48, 49, 50} \cup 1008..1025 \cup {4088, 4089, 4096}

ValHeaders ==
    { RecordHeader(sig, real_size, fao, 48, 3, 1, 0) :
        sig \in {"FILE", "BAAD"}, real_size \in ValRealSizes, fao \in ValOffsets }

ValStart(header, record_size) ==
    [pc |-> "validate", header |-> header, record_size |-> record_size,
     accepted |-> FALSE]

\* The call: Ok(()) or Err.
Validate(s) ==
    [s EXCEPT !.pc = "validated",
              !.accepted = validate_record_boundaries(s.header, s.record_size)]

ValInit ==
    /\ ex \in { ValStart(h, rs) : h \in ValHeaders, rs \in ValRecordSizes }
    /\ loc = Idle /\ fx = Idle /\ pa = Idle /\ pb = Idle

ValCall ==
    /\ ex.pc = "validate"
    /\ ex' = Validate(ex)
    /\ UNCHANGED <<loc, fx, pa, pb>>

ValNext == ValCall

SpecValidate == ValInit /\ [][ValNext]_vars

\* C22: a header is rejected exactly when its signature is not FILE, its
\* real_size is below 48 or above record_size, its first_attribute_offset is
\* not below record_size, or fewer than 8 bytes lie between
\* first_attribute_offset and real_size; so first_attribute_offset =
\* real_size - 8 is accepted when the rest holds and real_size - 7 never is.
C22_AcceptsExactlyWhen ==
    ex.pc = "validated" =>
        /\ ~ex.accepted <=>
              \/ ex.header.signature # "FILE"
              \/ ex.header.real_size < 48
              \/ ex.header.real_size > ex.record_size
              \/ ex.header.first_attribute_offset >= ex.record_size
              \/ ex.header.real_size - ex.header.first_attribute_offset < 8
        /\ ex.header.first_attribute_offset = ex.header.real_size - 7 => ~ex.accepted
        /\ (/\ ex.header.first_attribute_offset = ex.header.real_size - 8
            /\ ex.header.signature = "FILE"
            /\ ex.header.real_size \in 48..ex.record_size) => ex.accepted

\* A header accepted with its first attribute eight bytes before real_size.
C22_Witness ==
    /\ ex.pc = "validated" /\ ex.accepted
    /\ ex.header.real_size = 1024 /\ ex.header.first_attribute_offset = 1016
    /\ ex.record_size = 1024

\* The same header with the first attribute one byte later: rejected.
C22_RejectedAtSeven ==
    /\ ex.pc = "validated" /\ ~ex.accepted
    /\ ex.header.signature = "FILE"
    /\ ex.header.real_size = 1024 /\ ex.header.first_attribute_offset = 1017
    /\ ex.record_size = 1024

(***************************************************************************)
(* The partition locator, extract.rs find_ntfs_partition.                  *)
(*                                                                         *)
(* The source is a sequence of 512-byte blocks.  A block is described by   *)
(* the fields the locator decodes from it:                                 *)
(*   oem        bytes 3..11 are "NTFS    "                                 *)
(*   sig        bytes 510..512 are 55 AA                                   *)
(*   boot       the BPB fields NtfsBootSector::parse decodes               *)
(*   parts      the four partition entries at 446: [type, lba]             *)
(*   efi        bytes 0..8 are "EFI PART"                                  *)
(*   part_entry_lba, num_entries, entry_size   the GPT header fields       *)
(*   guid_zero  bytes 0..16 are all zero                                   *)
(*   first_lba  bytes 32..40, the first LBA of a GPT entry                 *)
(* Every u64 product of the model is far below 2^64: checked_mul and       *)
(* checked_add never give None here.                                       *)
(***************************************************************************)
PART_EMPTY == 0
PART_EXTENDED == 5
PART_GPT_PROTECTIVE == 238      \* 0xEE
MAX_EBR_DEPTH == 128
BLOCK == 512

NumBlocks == 4      \* blocks of the source

SectorSizes == <<512, 1024, 2048, 4096>>

Part(type, lba) == [type |-> type, lba |-> lba]

NoParts == <<Part(0, 0), Part(0, 0), Part(0, 0), Part(0, 0)>>

Block(oem, sig, boot, parts, efi, gpt, guid_zero, first_lba) ==
    [oem |-> oem, sig |-> sig, boot |-> boot, parts |-> parts, efi |-> efi,
     part_entry_lba |-> gpt[1], num_entries |-> gpt[2], entry_size |-> gpt[3],
     guid_zero |-> guid_zero, first_lba |-> first_lba]

ZeroBoot == BootSector(0, 0, 0, 0)

BlockKinds ==
    { Block(FALSE, FALSE, ZeroBoot, NoParts, FALSE, <<0, 0, 0>>, TRUE, 0),
      \* boot sectors: good for 512, good for 1024, bad sectors_per_cluster,
      \* no signature at 510
      Block(TRUE, TRUE, BootSector(512, 1, -10, 2), NoParts, FALSE, <<0, 0, 0>>, FALSE, 0),
      Block(TRUE, TRUE, BootSector(1024, 1, -10, 2), NoParts, FALSE, <<0, 0, 0>>, FALSE, 0),
      Block(TRUE, TRUE, BootSector(512, 3, -10, 2), NoParts, FALSE, <<0, 0, 0>>, FALSE, 0),
      Block(TRUE, FALSE, BootSector(1024, 1, -10, 2), NoParts, FALSE, <<0, 0, 0>>, FALSE, 0),
      \* partition tables
      Block(FALSE, TRUE, ZeroBoot,
            <<Part(7, 1), Part(0, 0), Part(7, 2), Part(0, 0)>>,
            FALSE, <<0, 0, 0>>, TRUE, 0),
      Block(FALSE, TRUE, ZeroBoot,
            <<Part(5, 1), Part(7, 3), Part(0, 0), Part(0, 0)>>,
            FALSE, <<0, 0, 0>>, TRUE, 0),
      Block(FALSE, TRUE, ZeroBoot,
            <<Part(238, 1), Part(7, 3), Part(0, 0), Part(0, 0)>>,
            FALSE, <<0, 0, 0>>, TRUE, 0),
      Block(FALSE, TRUE, ZeroBoot,
            <<Part(7, 1), Part(5, 0), Part(0, 0), Part(0, 0)>>,
            FALSE, <<0, 0, 0>>, TRUE, 0),
      Block(FALSE, TRUE, ZeroBoot,
            <<Part(7, 2), Part(0, 0), Part(0, 0), Part(0, 0)>>,
            FALSE, <<0, 0, 0>>, TRUE, 0),
      \* GPT headers and a GPT entry
      Block(FALSE, FALSE, ZeroBoot, NoParts, TRUE, <<2, 2, 512>>, FALSE, 0),
      Block(FALSE, FALSE, ZeroBoot, NoParts, TRUE, <<2, 2, 64>>, FALSE, 0),
      Block(FALSE, FALSE, ZeroBoot, NoParts, FALSE, <<0, 0, 0>>, FALSE, 3) }

Disks == [1..NumBlocks -> BlockKinds]

\* seek + read_exact of n bytes at byte offset off: whether it succeeds.
ReadOk(disk, off, n) == off + n <= Len(disk) * BLOCK

\* The block that holds byte offset off.
BlockAt(disk, off) == disk[(off \div BLOCK) + 1]

\* The check without the comparison of bytes_per_sector with the sector size.
CheckBpsAny(boot, sector_size) == TRUE

\* Lines 96-98.
CheckBps(boot, sector_size) == boot.bytes_per_sector = sector_size

\* Lines 71-103.  NtfsBootSector::parse(first512) is Some(boot) exactly when
\* the OEM matches.
check_vbr_strict(disk, offset, sector_size) ==
    IF sector_size < 512 \/ sector_size > 4096 THEN FALSE
    ELSE IF ~ReadOk(disk, offset, sector_size) THEN FALSE
    ELSE LET first == BlockAt(disk, offset)
             last == BlockAt(disk, offset + sector_size - 2)
             valid_sig == last.sig \/ (sector_size > 512 /\ first.sig)
         IN  IF ~first.oem THEN FALSE
             ELSE IF ~valid_sig THEN FALSE
             ELSE IF ~first.oem THEN FALSE        \* parse gives None
             ELSE IF ~CheckBps(first.boot, sector_size) THEN FALSE
             ELSE validate_vbr(first.boot) # -1

\* The locals of find_ntfs_partition.  probed is history: every
\* [offset, sector_size] handed to check_vbr_strict so far.
LocStart(disk) ==
    [pc |-> "size", disk |-> disk,
     size_idx |-> 1,                 \* position of the for loop over the sector sizes
     i |-> 0, has_gpt |-> FALSE,
     ext_base_lba |-> 0, current_ebr_lba |-> 0, ebr_depth |-> 0,
     entries_left |-> 0, entry_size |-> 0, pos |-> 0,
     ebr_reads |-> 0,                \* history: EBR sectors read for the last extended partition
     result |-> -1, probed |-> {}]

sector_size(s) == SectorSizes[s.size_idx]

Probed(s, offset) ==
    [s EXCEPT !.probed = @ \cup {[offset |-> offset, sector_size |-> sector_size(s)]}]

\* return Ok(offset)
Found(s, offset) == [Probed(s, offset) EXCEPT !.pc = "ok", !.result = offset]

\* The next iteration of the loop over the sector sizes (continue, or the
\* end of the body).
NextSize(s) ==
    [s EXCEPT !.pc = "size", !.size_idx = @ + 1, !.i = 0, !.has_gpt = FALSE,
              !.ext_base_lba = 0, !.current_ebr_lba = 0, !.ebr_depth = 0,
              !.entries_left = 0, !.entry_size = 0, !.pos = 0]

\* Lines 107-122 and 225.
LocSize(s) ==
    IF s.size_idx > Len(SectorSizes) THEN [s EXCEPT !.pc = "err"]
    ELSE IF check_vbr_strict(s.disk, 0, sector_size(s)) THEN Found(s, 0)
    ELSE LET t == Probed(s, 0)
         IN  IF ~ReadOk(s.disk, 0, sector_size(s)) THEN NextSize(t)
             ELSE IF ~s.disk[1].sig THEN NextSize(t)
             ELSE [t EXCEPT !.pc = "mbr", !.i = 0, !.has_gpt = FALSE]

\* Line 193: after the loop over the four entries.
AfterMbr(s) == IF s.has_gpt THEN [s EXCEPT !.pc = "gpt"] ELSE NextSize(s)

\* Lines 125-150: one iteration of the loop over the MBR's entries.
MbrEntry(s) ==
    IF s.i >= 4 THEN AfterMbr(s)
    ELSE LET e == s.disk[1].parts[s.i + 1]
             part_offset == e.lba * sector_size(s)
             next == [s EXCEPT !.i = @ + 1]
         IN  IF e.type = PART_EMPTY THEN next
             ELSE IF e.type = PART_GPT_PROTECTIVE
                  THEN AfterMbr([s EXCEPT !.has_gpt = TRUE])
             ELSE IF part_offset = 0 THEN next
             ELSE IF check_vbr_strict(s.disk, part_offset, sector_size(s))
                  THEN Found(s, part_offset)
             ELSE IF e.type \in {PART_EXTENDED, 15, 133}
                  THEN [Probed(s, part_offset) EXCEPT
                            !.pc = "ebr", !.ext_base_lba = e.lba,
                            !.current_ebr_lba = e.lba, !.ebr_depth = 0,
                            !.ebr_reads = 0]
             ELSE Probed(next, part_offset)

\* break out of the EBR loop: the next MBR entry.
EbrExit(s) ==
    [s EXCEPT !.pc = "mbr", !.i = @ + 1, !.ext_base_lba = 0,
              !.current_ebr_lba = 0, !.ebr_depth = 0]

\* A walk without the limit on its length.
DepthNeverExhausted(s) == FALSE

\* Line 151: the condition of the while loop, negated.
DepthExhausted(s) == s.ebr_depth >= MAX_EBR_DEPTH

\* Lines 151-188: one iteration of the walk along the EBR chain.
EbrHop(s) ==
    LET ebr_offset == s.current_ebr_lba * sector_size(s)
        r == [s EXCEPT !.ebr_reads = @ + 1]
    IN  IF DepthExhausted(s) THEN EbrExit(s)
        ELSE IF ebr_offset = 0 THEN EbrExit(s)
        ELSE IF ~ReadOk(s.disk, ebr_offset, sector_size(s)) THEN EbrExit(r)
        ELSE
        LET ebr_sector == BlockAt(s.disk, ebr_offset)
            log == ebr_sector.parts[1]
            log_offset == (s.current_ebr_lba + log.lba) * sector_size(s)
            nxt == ebr_sector.parts[2]
            next_lba == s.ext_base_lba + nxt.lba
            t == IF log.type # 0 THEN Probed(r, log_offset) ELSE r
        IN  IF ~ebr_sector.sig THEN EbrExit(r)
            ELSE IF log.type # 0 /\ log_offset = 0 THEN EbrExit(r)
            ELSE IF log.type # 0 /\ check_vbr_strict(s.disk, log_offset, sector_size(s))
                 THEN Found(r, log_offset)
            ELSE IF nxt.type = 0 THEN EbrExit(t)
            ELSE IF next_lba = 0 THEN EbrExit(t)
            ELSE [t EXCEPT !.current_ebr_lba = next_lba, !.ebr_depth = @ + 1]

\* Lines 193-205: the GPT header at 1 * sector_size.
GptHeader(s) ==
    LET gpt_header_offset == sector_size(s)
        h == BlockAt(s.disk, gpt_header_offset)
    IN  IF ~ReadOk(s.disk, gpt_header_offset, sector_size(s)) THEN NextSize(s)
        ELSE IF ~h.efi THEN NextSize(s)
        ELSE IF ~(h.entry_size >= 128 /\ h.entry_size <= 4096
                  /\ h.num_entries > 0 /\ h.num_entries <= 4096)
             THEN NextSize(s)
        ELSE [s EXCEPT !.pc = "gpt_entry", !.entries_left = h.num_entries,
                       !.entry_size = h.entry_size,
                       !.pos = h.part_entry_lba * sector_size(s)]

\* Lines 206-216: one iteration of the loop over the GPT entries.  The cursor
\* is put back behind the entry after the probe.
GptEntry(s) ==
    IF s.entries_left = 0 THEN NextSize(s)
    ELSE IF ~ReadOk(s.disk, s.pos, s.entry_size) THEN NextSize(s)
    ELSE LET entry == BlockAt(s.disk, s.pos)
             part_offset == entry.first_lba * sector_size(s)
             next == [s EXCEPT !.pos = @ + s.entry_size, !.entries_left = @ - 1]
         IN  IF entry.guid_zero THEN next
             ELSE IF check_vbr_strict(s.disk, part_offset, sector_size(s))
                  THEN Found(s, part_offset)
             ELSE Probed(next, part_offset)

LocInit ==
    /\ loc \in { LocStart(d) : d \in Disks }
    /\ ex = Idle /\ fx = Idle /\ pa = Idle /\ pb = Idle

LocNextSize ==
    /\ loc.pc = "size"
    /\ loc' = LocSize(loc)
    /\ UNCHANGED <<ex, fx, pa, pb>>

LocMbrEntry ==
    /\ loc.pc = "mbr"
    /\ loc' = MbrEntry(loc)
    /\ UNCHANGED <<ex, fx, pa, pb>>

LocEbrHop ==
    /\ loc.pc = "ebr"
    /\ loc' = EbrHop(loc)
    /\ UNCHANGED <<ex, fx, pa, pb>>

LocGptHeader ==
    /\ loc.pc = "gpt"
    /\ loc' = GptHeader(loc)
    /\ UNCHANGED <<ex, fx, pa, pb>>

LocGptEntry ==
    /\ loc.pc = "gpt_entry"
    /\ loc' = GptEntry(loc)
    /\ UNCHANGED <<ex, fx, pa, pb>>

LocNext ==
    \/ LocNextSize \/ LocMbrEntry \/ LocEbrHop \/ LocGptHeader \/ LocGptEntry

SpecLocate == LocInit /\ [][LocNext]_vars

\* What the claim requires of the sector at offset, for the sector size tried.
StrictVbrAt(disk, offset, size) ==
    /\ size \in {512, 1024, 2048, 4096}
    /\ offset + size <= NumBlocks * BLOCK
    /\ disk[offset \div BLOCK + 1].oem
    /\ \/ disk[(offset + size - 2) \div BLOCK + 1].sig
       \/ (size > 512 /\ disk[offset \div BLOCK + 1].sig)
    /\ disk[offset \div BLOCK + 1].boot.bytes_per_sector = size
    /\ validate_vbr(disk[offset \div BLOCK + 1].boot) # -1

\* C6: find_ntfs_partition returns Ok(offset) only if the sector at offset
\* passes the strict check for the sector size being tried, and it returns the
\* not-found error when no candidate it tried at any of the four sector sizes
\* passes -- and only then.
C6_OkOnlyForStrictVbr ==
    /\ loc.pc = "ok" =>
          /\ StrictVbrAt(loc.disk, loc.result, SectorSizes[loc.size_idx])
          /\ [offset |-> loc.result, sector_size |-> SectorSizes[loc.size_idx]]
                \in loc.probed
    /\ loc.pc = "err" =>
          /\ loc.size_idx = Len(SectorSizes) + 1
          /\ \A size \in {512, 1024, 2048, 4096} :
                [offset |-> 0, sector_size |-> size] \in loc.probed
          /\ \A c \in loc.probed : ~StrictVbrAt(loc.disk, c.offset, c.sector_size)
    /\ loc.pc \notin {"ok", "err"} =>
          \A c \in loc.probed : ~StrictVbrAt(loc.disk, c.offset, c.sector_size)

\* Ok is returned for a logical partition found through an EBR, under a
\* sector size above 512, after candidates that failed the check.
C6_Witness ==
    /\ loc.pc = "ok"
    /\ loc.result > 0
    /\ SectorSizes[loc.size_idx] = 1024
    /\ Cardinality(loc.probed) >= 3

\* The not-found error after candidates from the MBR, an EBR and the GPT all
\* failed the check.
C6_NotFound ==
    /\ loc.pc = "err"
    /\ Cardinality(loc.probed) >= 7

\* The scheduling of the locator: it is one sequential function, so a step
\* that can be taken is taken.
SpecLocateLive == LocInit /\ [][LocNext]_vars /\ WF_vars(LocNext)

\* The EBR sector the walk is about to read, when the read succeeds.
EbrSectorAhead ==
    BlockAt(loc.disk, loc.current_ebr_lba * sector_size(loc))

EbrReadAhead ==
    /\ loc.pc = "ebr"
    /\ loc.ebr_depth < MAX_EBR_DEPTH
    /\ loc.current_ebr_lba * sector_size(loc) # 0
    /\ ReadOk(loc.disk, loc.current_ebr_lba * sector_size(loc), sector_size(loc))

\* C25: for every disk, a cyclic EBR chain included, the walk through one
\* extended partition reads at most 128 EBR sectors, a sector without the
\* signature or with entry 2 of type 0 is the last one it reads, and
\* find_ntfs_partition returns.
C25_EbrWalkBounded ==
    /\ <>(loc.pc \in {"ok", "err"})
    /\ [](loc.ebr_reads <= MAX_EBR_DEPTH)
    /\ [][(EbrReadAhead /\ (~EbrSectorAhead.sig \/ EbrSectorAhead.parts[2].type = 0))
            => (loc'.pc # "ebr" /\ loc'.ebr_reads = loc.ebr_reads + 1)]_vars

\* A chain that leads back to its first EBR: left after the 128th sector.
C25_Witness ==
    /\ loc.pc = "mbr"
    /\ loc.ebr_reads = MAX_EBR_DEPTH
    /\ loc.disk[2].parts[2] = Part(PART_EXTENDED, 0)

\* C24: an entry of type 0xEE is the only one skipped: once the loop over the
\* MBR's four entries has ended with has_gpt set, every other entry with a
\* type and a non-zero offset has been probed at lba_start * sector_size.
C24_LaterEntriesProbed ==
    loc.pc \in {"gpt", "gpt_entry"} =>
        \A k \in 1..4 :
            LET e == loc.disk[1].parts[k]
            IN  (e.type \notin {PART_EMPTY, PART_GPT_PROTECTIVE}
                    /\ e.lba * sector_size(loc) # 0)
                => [offset |-> e.lba * sector_size(loc),
                    sector_size |-> sector_size(loc)] \in loc.probed

\* The not-found error for a disk whose MBR lists, behind an entry of type
\* 0xEE, an NTFS partition that passes the strict check.
C24_PartitionMissed ==
    /\ loc.pc = "err"
    /\ loc.disk[1].parts[1].type = PART_GPT_PROTECTIVE
    /\ \E k \in 2..4 :
          /\ loc.disk[1].parts[k].type = 7
          /\ loc.disk[1].parts[k].lba < NumBlocks
          /\ StrictVbrAt(loc.disk, loc.disk[1].parts[k].lba * BLOCK, BLOCK)

(***************************************************************************)
(* The fixup applier, mft/parser.rs apply_fixups, byte by byte.  data is   *)
(* the record buffer (byte k of the code is data[k + 1]); orig is history: *)
(* the buffer as it was handed in.                                         *)
(***************************************************************************)
MaxSectors == 3     \* sectors of the buffer

Bytes == {0, 1}

FxSectorSizes == {0, 1, 2, 4}

FxLens(bps) ==
    IF bps = 0 THEN {2}
    ELSE { bps * k : k \in 1..MaxSectors } \cup { bps * MaxSectors - 1 }
         \cup { 4 }     \* the shortest buffer that holds a USA of two words

FxUsaOffsets == {0, 1, 2, 4}

FxUsaCounts == 0..4

FxStart(data, usa_offset, usa_count, bytes_per_sector) ==
    [pc |-> "check", data |-> data, orig |-> data,
     usa_offset |-> usa_offset, usa_count |-> usa_count,
     bytes_per_sector |-> bytes_per_sector,
     usn_0 |-> 0, usn_1 |-> 0, max_fixups |-> 0, i |-> 0,
     torn_write |-> FALSE, result |-> "none",
     applications |-> 1,                  \* calls of apply_fixups on this buffer so far
     first_result |-> "none", first_data |-> <<>>]   \* what the first call returned and left

FxReturn(s, result) == [s EXCEPT !.pc = "done", !.result = result]

\* The checks of lines 15-19 with a USA of fewer than two words let through.
FixupCheckAnyCount(s) ==
    LET len == Len(s.data)
        bps == s.bytes_per_sector
    IN  IF bps = 0 \/ len % bps # 0 THEN FxReturn(s, "Failed")
        ELSE IF s.usa_offset + 2 > len \/ s.usa_offset + s.usa_count * 2 > len
             THEN FxReturn(s, "Failed")
        ELSE [s EXCEPT !.pc = "loop",
                       !.usn_0 = s.data[s.usa_offset + 1],
                       !.usn_1 = s.data[s.usa_offset + 2],
                       !.max_fixups = Min(s.usa_count - 1, len \div bps),
                       !.i = 1, !.torn_write = FALSE]

\* The checks of lines 15-19 asking only for the USN, the first word of the
\* USA, to lie inside the buffer.
FixupCheckUsnOnly(s) ==
    LET len == Len(s.data)
        bps == s.bytes_per_sector
    IN  IF bps = 0 \/ len % bps # 0 THEN FxReturn(s, "Failed")
        ELSE IF s.usa_count < 2 \/ s.usa_offset + 2 > len
             THEN FxReturn(s, "Failed")
        ELSE [s EXCEPT !.pc = "loop",
                       !.usn_0 = s.data[s.usa_offset + 1],
                       !.usn_1 = s.data[s.usa_offset + 2],
                       !.max_fixups = Min(s.usa_count - 1, len \div bps),
                       !.i = 1, !.torn_write = FALSE]

\* Lines 15-25.
FixupCheck(s) ==
    LET len == Len(s.data)
        bps == s.bytes_per_sector
    IN  IF bps = 0 \/ len % bps # 0 THEN FxReturn(s, "Failed")
        ELSE IF s.usa_count < 2 \/ s.usa_offset + s.usa_count * 2 > len
             THEN FxReturn(s, "Failed")
        ELSE [s EXCEPT !.pc = "loop",
                       !.usn_0 = s.data[s.usa_offset + 1],
                       !.usn_1 = s.data[s.usa_offset + 2],
                       !.max_fixups = Min(s.usa_count - 1, len \div bps),
                       !.i = 1, !.torn_write = FALSE]

\* One iteration that gives up at the first mismatching sector.
FixupSectorStopsOnMismatch(s) ==
    LET sector_tail == s.i * s.bytes_per_sector - 2
        fixup_off == s.usa_offset + s.i * 2
        d1 == [s.data EXCEPT ![sector_tail + 1] = s.data[fixup_off + 1]]
        d2 == [d1 EXCEPT ![sector_tail + 2] = d1[fixup_off + 2]]
    IN  IF s.i > s.max_fixups THEN FxReturn(s, "Ok")
        ELSE IF s.i * s.bytes_per_sector < 2 THEN FxReturn(s, "Failed")
        ELSE IF s.data[sector_tail + 1] # s.usn_0 \/ s.data[sector_tail + 2] # s.usn_1
             THEN FxReturn(s, "TornWrite")
        ELSE [s EXCEPT !.data = d2, !.i = @ + 1]

\* Lines 27-40: one iteration of the loop, or the return after it.  The two
\* bytes are copied one after the other.
FixupSector(s) ==
    LET len == Len(s.data)
        sector_end == s.i * s.bytes_per_sector
        sector_tail == sector_end - 2
        fixup_off == s.usa_offset + s.i * 2
        torn == \/ s.torn_write
                \/ s.data[sector_tail + 1] # s.usn_0
                \/ s.data[sector_tail + 2] # s.usn_1
        d1 == [s.data EXCEPT ![sector_tail + 1] = s.data[fixup_off + 1]]
        d2 == [d1 EXCEPT ![sector_tail + 2] = d1[fixup_off + 2]]
    IN  IF s.i > s.max_fixups
        THEN FxReturn(s, IF s.torn_write THEN "TornWrite" ELSE "Ok")
        ELSE IF sector_end < 2 \/ sector_end > len THEN FxReturn(s, "Failed")
        ELSE IF fixup_off + 1 >= len
             THEN FxReturn([s EXCEPT !.torn_write = torn], "Failed")
        ELSE [s EXCEPT !.torn_write = torn, !.data = d2, !.i = @ + 1]

FxInit ==
    /\ \E bps \in FxSectorSizes, uo \in FxUsaOffsets, uc \in FxUsaCounts :
          \E n \in FxLens(bps) :
              fx \in { FxStart(d, uo, uc, bps) : d \in [1..n -> Bytes] }
    /\ ex = Idle /\ loc = Idle /\ pa = Idle /\ pb = Idle

FxCheck ==
    /\ fx.pc = "check"
    /\ fx' = FixupCheck(fx)
    /\ UNCHANGED <<ex, loc, pa, pb>>

FxSector ==
    /\ fx.pc = "loop"
    /\ fx' = FixupSector(fx)
    /\ UNCHANGED <<ex, loc, pa, pb>>

FxNext == FxCheck \/ FxSector

SpecFixup == FxInit /\ [][FxNext]_vars

\* The sectors the loop goes through.
FxSectors(s) ==
    1..Min(s.usa_count - 1, Len(s.orig) \div s.bytes_per_sector)

\* The tail of sector i of the buffer handed in equals the USN.
TailIsUsn(s, i) ==
    /\ s.orig[i * s.bytes_per_sector - 1] = s.orig[s.usa_offset + 1]
    /\ s.orig[i * s.bytes_per_sector] = s.orig[s.usa_offset + 2]

\* Byte p (counted from 0) of the buffer once the first k sectors are done:
\* the tail of sector k holds what USA slot k held after k - 1 sectors.
RECURSIVE ByteAfter(_, _, _)
ByteAfter(s, p, k) ==
    LET tail == k * s.bytes_per_sector - 2
        slot == s.usa_offset + 2 * k
    IN  IF k = 0 THEN s.orig[p + 1]
        ELSE IF p = tail THEN ByteAfter(s, slot, k - 1)
        ELSE IF p = tail + 1
             THEN ByteAfter(s, IF slot + 1 = tail THEN slot ELSE slot + 1, k - 1)
        ELSE ByteAfter(s, p, k - 1)

\* C7, as the code has it: for a buffer of whole sectors of at least two bytes
\* whose USA lies inside it and has at least two words, the result is Ok iff
\* every sector tail equals the USN and TornWrite iff one differs, and every
\* sector tail holds the word its USA slot held when that sector was reached;
\* no other byte changes.
C7_FixupResult ==
    (/\ fx.pc = "done"
     /\ fx.bytes_per_sector >= 2
     /\ Len(fx.orig) % fx.bytes_per_sector = 0
     /\ fx.usa_count >= 2
     /\ fx.usa_offset + 2 * fx.usa_count <= Len(fx.orig))
    => /\ fx.result = "Ok" <=> \A i \in FxSectors(fx) : TailIsUsn(fx, i)
       /\ fx.result = "TornWrite" <=> \E i \in FxSectors(fx) : ~TailIsUsn(fx, i)
       /\ Len(fx.data) = Len(fx.orig)
       /\ \A p \in 0..(Len(fx.orig) - 1) :
             fx.data[p + 1] = ByteAfter(fx, p, Cardinality(FxSectors(fx)))

\* A torn first sector, and the second sector's tail replaced all the same.
C7_Witness ==
    /\ fx.pc = "done" /\ fx.result = "TornWrite"
    /\ fx.bytes_per_sector = 4 /\ fx.usa_count = 3 /\ Len(fx.orig) = 8
    /\ fx.usa_offset = 0
    /\ ~TailIsUsn(fx, 1)
    /\ fx.data[7] # fx.orig[7]
    /\ fx.data[7] = fx.orig[5] /\ fx.data[8] = fx.orig[6]

\* C7 as stated: for a buffer of whole sectors whose USA lies inside it, Ok
\* iff every sector tail equals the USN, TornWrite iff one differs, and every
\* sector tail holds USA[i] of the buffer handed in.
C7_AsStated ==
    (/\ fx.pc = "done"
     /\ fx.bytes_per_sector > 0
     /\ Len(fx.orig) % fx.bytes_per_sector = 0
     /\ fx.usa_offset + 2 * fx.usa_count <= Len(fx.orig))
    => /\ fx.result = "Ok" <=> \A i \in FxSectors(fx) : TailIsUsn(fx, i)
       /\ fx.result = "TornWrite" <=> \E i \in FxSectors(fx) : ~TailIsUsn(fx, i)
       /\ \A i \in FxSectors(fx) :
             /\ fx.data[i * fx.bytes_per_sector - 1] = fx.orig[fx.usa_offset + 2 * i + 1]
             /\ fx.data[i * fx.bytes_per_sector] = fx.orig[fx.usa_offset + 2 * i + 2]

\* C21, as the code has it: the result is one of Ok, TornWrite and Failed, and
\* it is Failed exactly when the sector size is 0 or does not divide the
\* buffer length, the USA has fewer than two words or does not lie inside the
\* buffer, or the sector size is 1, so that a sector has no two-byte tail.
C21_FailedExactlyWhen ==
    fx.pc = "done" =>
        /\ fx.result \in {"Ok", "TornWrite", "Failed"}
        /\ fx.result = "Failed" <=>
              \/ fx.bytes_per_sector = 0
              \/ Len(fx.orig) % fx.bytes_per_sector # 0
              \/ fx.usa_count < 2
              \/ fx.usa_offset + 2 * fx.usa_count > Len(fx.orig)
              \/ fx.bytes_per_sector < 2

\* Failed for a buffer of whole sectors whose USA lies inside it: the USA has
\* fewer than two words.
C21_Witness ==
    /\ fx.pc = "done" /\ fx.result = "Failed"
    /\ fx.bytes_per_sector = 4 /\ Len(fx.orig) = 8
    /\ fx.usa_count = 1 /\ fx.usa_offset = 4

\* C21 as stated: Failed only if the length is not a multiple of the sector
\* size (a sector size of 0 included), the USA does not lie inside the buffer,
\* or a sector tail or a fixup offset of the loop escapes the buffer.
C21_AsStated ==
    (fx.pc = "done" /\ fx.result = "Failed") =>
        \/ fx.bytes_per_sector = 0
        \/ Len(fx.orig) % fx.bytes_per_sector # 0
        \/ fx.usa_offset + 2 * fx.usa_count > Len(fx.orig)
        \/ \E i \in FxSectors(fx) :
              \/ i * fx.bytes_per_sector < 2
              \/ i * fx.bytes_per_sector > Len(fx.orig)
              \/ fx.usa_offset + 2 * i + 1 >= Len(fx.orig)

\* C27: when apply_fixups returns Failed the buffer is byte for byte the one
\* handed in, and the loop has not gone past its first sector.
C27_FailedLeavesBuffer ==
    (fx.pc = "done" /\ fx.result = "Failed") =>
        /\ fx.data = fx.orig
        /\ fx.i <= 1

\* Failed from inside the loop, at the first sector of a buffer of one-byte
\* sectors that holds the USA and nothing else.
C27_Witness ==
    /\ fx.pc = "done" /\ fx.result = "Failed"
    /\ fx.i = 1 /\ fx.bytes_per_sector = 1
    /\ fx.usa_count = 2 /\ fx.usa_offset = 0
    /\ fx.data = <<0, 0, 1, 1>> /\ fx.orig = <<0, 0, 1, 1>>

(***************************************************************************)
(* apply_fixups called a second time on the buffer the first call left,    *)
(* with the same header and sector size.                                   *)
(***************************************************************************)
\* A second call that is handed the buffer as it was before the first call.
ApplyAgainOnOriginal(s) ==
    [FxStart(s.orig, s.usa_offset, s.usa_count, s.bytes_per_sector) EXCEPT
        !.applications = 2, !.first_result = s.result, !.first_data = s.data]

\* apply_fixups works in place: the second call gets the bytes the first left.
ApplyAgain(s) ==
    [FxStart(s.data, s.usa_offset, s.usa_count, s.bytes_per_sector) EXCEPT
        !.applications = 2, !.first_result = s.result, !.first_data = s.data]

FxAgain ==
    /\ fx.pc = "done"
    /\ fx.applications = 1
    /\ fx' = ApplyAgain(fx)
    /\ UNCHANGED <<ex, loc, pa, pb>>

FxTwiceNext == FxCheck \/ FxSector \/ FxAgain

SpecFixupTwice == FxInit /\ [][FxTwiceNext]_vars

\* The USA and the sector tails the loop rewrites share no byte.
UsaClearOfTails(s) ==
    \A i \in FxSectors(s) :
        \/ i * s.bytes_per_sector <= s.usa_offset
        \/ i * s.bytes_per_sector - 2 >= s.usa_offset + 2 * s.usa_count

\* Slot i of the USA, in the buffer the second call was handed, holds the USN.
SlotIsUsn(s, i) ==
    /\ s.orig[s.usa_offset + 2 * i + 1] = s.orig[s.usa_offset + 1]
    /\ s.orig[s.usa_offset + 2 * i + 2] = s.orig[s.usa_offset + 2]

SecondDone == fx.pc = "done" /\ fx.applications = 2

\* C15, as the code has it: a second application returns Failed exactly when
\* the first did; when the USA shares no byte with a sector tail it leaves the
\* bytes as the first application left them, and (the first not having failed)
\* it returns Ok only if every USA slot of a processed sector holds the USN
\* itself, TornWrite otherwise -- whatever the first application returned.
C15_SecondApplication ==
    SecondDone =>
        /\ fx.result = "Failed" <=> fx.first_result = "Failed"
        /\ (fx.bytes_per_sector > 0 /\ UsaClearOfTails(fx)) => fx.data = fx.first_data
        /\ (fx.first_result # "Failed" /\ UsaClearOfTails(fx)) =>
              (fx.result = "Ok" <=> \A i \in FxSectors(fx) : SlotIsUsn(fx, i))

\* A record of two sectors, its USA clear of the sector tails, whose first
\* application returned Ok and whose second returns TornWrite, with the same
\* bytes.
C15_Witness ==
    /\ SecondDone
    /\ fx.first_result = "Ok" /\ fx.result = "TornWrite"
    /\ fx.data = fx.first_data
    /\ fx.bytes_per_sector = 4 /\ Len(fx.orig) = 8 /\ fx.usa_count >= 2
    /\ UsaClearOfTails(fx)

\* C15 as stated: the second application yields the same bytes and the same
\* FixupResult as the first.
C15_AsStated ==
    SecondDone => (fx.data = fx.first_data /\ fx.result = fx.first_result)

(***************************************************************************)
(* The parser, commands/parse.rs run, pass 2, with MftParser::fetch_record *)
(* (mft/parser.rs).  The raw $MFT is total_records records of RECORD_SIZE  *)
(* bytes; pos is the position of the parser's reader.  What a read returns *)
(* is drawn when the read happens.  log is history: one element per record *)
(* the main loop has dealt with, with the offset it was read from and      *)
(* whether an entry was written for it.                                    *)
(***************************************************************************)
RECORD_SIZE == 1024
PARSE_BPS == 512

MaxRecords == 3     \* records of the raw $MFT

ParseHeaders ==
    { RecordHeader(sig, 280, 56, 48, cnt, 1, base) :
        sig \in {"FILE", "BAAD", "JUNK"}, cnt \in {1, 3}, base \in {0, 1} }

\* Outcomes of fetch_record's four I/O calls: all succeed, or the first that
\* fails.
FetchOutcomes == {"ok", "position_fails", "seek_fails", "read_fails", "restore_fails"}

PaStart(total_records) ==
    [pc |-> "read", total_records |-> total_records,
     file_size |-> total_records * RECORD_SIZE,
     pos |-> 0, entry_num |-> 0,
     header |-> 0, offset |-> 0,           \* the record in record_buffer and where it was read
     extents_to_fetch |-> {}, buffers |-> 0,
     fetch_return |-> "not_called",        \* history: what the last fetch_record returned
     pos_before_fetch |-> 0,               \* history: pos when it was called
     log |-> <<>>]

Dealt(s, offset, h, fixup_failed, emitted) ==
    [s EXCEPT !.log = Append(@, [entry_number |-> s.entry_num, offset |-> offset,
                                 signature |-> h.signature,
                                 base_record_reference |-> h.base_record_reference,
                                 fixup_failed |-> fixup_failed,
                                 emitted |-> emitted])]

\* continue: the next entry_num.
Continue(s) ==
    [s EXCEPT !.pc = "read", !.entry_num = @ + 1, !.header = 0, !.offset = 0,
              !.extents_to_fetch = {}, !.buffers = 0,
              !.fetch_return = "not_called", !.pos_before_fetch = 0]

\* parse.rs line 222.
SkipsRecord(h) == h.signature = "BAAD" \/ h.base_record_reference # 0

\* Lines 215-228 and gather_record_buffers up to its fetch loop: h is the
\* header in the bytes read, listed the entries its resident $ATTRIBUTE_LIST
\* names.
ReadRecord(s, h, listed, io_ok) ==
    IF s.entry_num >= s.total_records THEN [s EXCEPT !.pc = "done"]
    ELSE IF ~io_ok \/ s.pos + RECORD_SIZE > s.file_size THEN [s EXCEPT !.pc = "done"]
    ELSE
    LET t == [s EXCEPT !.pos = @ + RECORD_SIZE]
        failed == FixupFails(RECORD_SIZE, h.update_sequence_offset,
                             h.update_sequence_size, PARSE_BPS)
    IN  IF h.signature \notin {"FILE", "BAAD"}
        THEN Continue(Dealt(t, s.pos, h, FALSE, FALSE))
        ELSE IF SkipsRecord(h) THEN Continue(Dealt(t, s.pos, h, FALSE, FALSE))
        ELSE IF failed THEN Continue(Dealt(t, s.pos, h, TRUE, FALSE))
        ELSE [t EXCEPT !.pc = "gather", !.header = h, !.offset = s.pos,
                       !.buffers = 1,
                       !.extents_to_fetch =
                           { e \in listed : e # s.entry_num /\ e > 0
                                            /\ e < s.total_records }]

\* mft/parser.rs fetch_record: the reader position it leaves.  A failed
\* stream_position or seek leaves the cursor where it was; a failed read
\* leaves it where the read began; a failed final seek leaves it behind the
\* record read.
fetch_record(s, entry, outcome) ==
    LET offset == entry * RECORD_SIZE
    IN  IF offset >= s.file_size THEN s
        ELSE IF outcome \in {"position_fails", "seek_fails"} THEN s
        ELSE IF outcome = "read_fails" THEN [s EXCEPT !.pos = offset]
        ELSE IF outcome = "restore_fails" THEN [s EXCEPT !.pos = offset + RECORD_SIZE]
        ELSE s

\* parse.rs lines 101-109: one iteration of the loop over extents_to_fetch,
\* in the order the HashSet gives.
FetchExtentRecord(s, entry, outcome, usable) ==
    LET t == fetch_record(s, entry, outcome)
    IN  [t EXCEPT !.extents_to_fetch = @ \ {entry},
                  !.buffers = IF outcome = "ok" /\ usable THEN @ + 1 ELSE @,
                  !.fetch_return = IF outcome = "ok" THEN "Some" ELSE "None",
                  !.pos_before_fetch = s.pos]

\* Lines 347-362: the entry is written with entry_number = entry_num.
EmitEntry(s) == Continue(Dealt(s, s.offset, s.header, FALSE, TRUE))

PaInit ==
    /\ pa \in { PaStart(n) : n \in 1..MaxRecords }
    /\ ex = Idle /\ loc = Idle /\ fx = Idle /\ pb = Idle

PaRead ==
    /\ pa.pc = "read"
    /\ \E h \in ParseHeaders, listed \in SUBSET (0..MaxRecords), io_ok \in BOOLEAN :
          pa' = ReadRecord(pa, h, listed, io_ok)
    /\ UNCHANGED <<ex, loc, fx, pb>>

PaFetch ==
    /\ pa.pc = "gather"
    /\ pa.extents_to_fetch # {}
    /\ \E entry \in pa.extents_to_fetch, outcome \in FetchOutcomes, usable \in BOOLEAN :
          pa' = FetchExtentRecord(pa, entry, outcome, usable)
    /\ UNCHANGED <<ex, loc, fx, pb>>

PaEmit ==
    /\ pa.pc = "gather"
    /\ pa.extents_to_fetch = {}
    /\ pa' = EmitEntry(pa)
    /\ UNCHANGED <<ex, loc, fx, pb>>

PaNext == PaRead \/ PaFetch \/ PaEmit

SpecParse == PaInit /\ [][PaNext]_vars

\* C8: a record is skipped exactly when its signature is neither FILE nor
\* BAAD, or its base_record_reference is not 0, or its fixups failed; every
\* other record, a BAAD one too, has an entry written.
C8_SkippedExactlyWhen ==
    \A k \in 1..Len(pa.log) :
        ~pa.log[k].emitted <=>
            \/ pa.log[k].signature \notin {"FILE", "BAAD"}
            \/ pa.log[k].base_record_reference # 0
            \/ pa.log[k].fixup_failed

\* C9: the entries are written in strictly ascending entry_number order, and
\* the entry_number of each is the index of the record it was decoded from.
C9_EntryNumberIsIndex ==
    /\ \A j, k \in 1..Len(pa.log) :
          j < k => pa.log[j].entry_number < pa.log[k].entry_number
    /\ \A k \in 1..Len(pa.log) :
          pa.log[k].emitted =>
              pa.log[k].offset = pa.log[k].entry_number * RECORD_SIZE

\* C18: fetch_record leaves the reader position equal to its value before
\* the call on every return path, Some and None alike.
C18_CursorPreserved ==
    pa.fetch_return # "not_called" => pa.pos = pa.pos_before_fetch

\* fetch_record has returned Some with the reader back where it was.
C18_SomeRestored ==
    pa.fetch_return = "Some" /\ pa.pos = pa.pos_before_fetch /\ pa.pos > 0

\* fetch_record has returned None with the reader left behind the extent
\* record it read.
C18_NoneNotRestored ==
    pa.fetch_return = "None" /\ pa.pos > pa.pos_before_fetch

(***************************************************************************)
(* The path builder, mft/path_builder.rs get_full_path: one walk, one      *)
(* iteration of the while loop per step.  entries is the table; trail and  *)
(* origin are history: the [entry, expected] pair each iteration began     *)
(* with, and for each element of path_parts the entry it was pushed for.   *)
(***************************************************************************)
ROOT_ENTRY == 5
ORPHAN_OR_REALLOCATED == "<ORPHAN_OR_REALLOCATED>"
CORRUPTED_LOOP == "<CORRUPTED_LOOP>"

MaxSeq == 2         \* sequence numbers run from 1 to MaxSeq

PathEntry(parent_num, parent_seq, self_seq, name) ==
    [parent_num |-> parent_num, parent_seq |-> parent_seq,
     self_seq |-> self_seq, name |-> name]

\* Tables over the entries 5, 10 and 11; 12 is an entry the table lacks.
PathTables ==
    { (5 :> PathEntry(p5, 0, s5, ".")) @@ (10 :> PathEntry(p10, ps10, s10, "a"))
        @@ (11 :> PathEntry(p11, ps11, s11, n11)) :
        p5 \in {5, 10}, s5 \in 1..MaxSeq,
        p10 \in {5, 10, 11, 12}, ps10 \in 0..MaxSeq, s10 \in 1..MaxSeq,
        p11 \in {5, 10, 11, 12}, ps11 \in 0..MaxSeq, s11 \in 1..MaxSeq,
        n11 \in {".", "b"} }

PbStart(entries, entry_num, expected_seq) ==
    [pc |-> "walk", entries |-> entries,
     entry_num |-> entry_num, expected_seq |-> expected_seq,
     current_entry |-> entry_num, current_expected_seq |-> expected_seq,
     visited |-> {}, path_parts |-> <<>>, origin |-> <<>>, trail |-> <<>>,
     result |-> <<>>]

Reverse(q) == [k \in 1..Len(q) |-> q[Len(q) + 1 - k]]

\* Lines 52-57: the result, as the sequence of its components from the root
\* down (the empty sequence is the path "\").
PathReturn(s) == [s EXCEPT !.pc = "done", !.result = Reverse(s.path_parts)]

Push(s, part) ==
    [s EXCEPT !.path_parts = Append(@, part),
              !.origin = Append(@, s.current_entry)]

\* The walk without the test of the sequence number.
SeqMismatchIgnored(current_expected_seq, self_seq) == FALSE

\* Line 35.
SeqMismatch(current_expected_seq, self_seq) ==
    current_expected_seq # 0 /\ self_seq # current_expected_seq

\* The walk without the visited set.
RevisitNever(s) == FALSE

\* Line 29: visited.insert(current_entry) returns false.
Revisit(s) == s.current_entry \in s.visited

\* Lines 28-50: one iteration.
PathStep(s) ==
    IF s.current_entry \notin DOMAIN s.entries THEN PathReturn(s)
    ELSE
    LET e == s.entries[s.current_entry]
        t == [s EXCEPT !.trail = Append(@, [entry |-> s.current_entry,
                                            expected |-> s.current_expected_seq])]
        u == [t EXCEPT !.visited = @ \cup {s.current_entry}]
        named == IF e.name # "." THEN Push(u, e.name) ELSE u
    IN  IF Revisit(s) THEN PathReturn(Push(t, CORRUPTED_LOOP))
        ELSE IF SeqMismatch(s.current_expected_seq, e.self_seq)
             THEN PathReturn(Push(u, ORPHAN_OR_REALLOCATED))
        ELSE IF s.current_entry = ROOT_ENTRY \/ e.parent_num = s.current_entry
             THEN PathReturn(named)
        ELSE [named EXCEPT !.current_entry = e.parent_num,
                           !.current_expected_seq = e.parent_seq]

PbInit ==
    /\ pb \in { PbStart(t, n, q) :
                  t \in PathTables, n \in {5, 10, 11, 12}, q \in 0..MaxSeq }
    /\ ex = Idle /\ loc = Idle /\ fx = Idle /\ pa = Idle

PbStep ==
    /\ pb.pc = "walk"
    /\ pb' = PathStep(pb)
    /\ UNCHANGED <<ex, loc, fx, pa>>

PbNext == PbStep

SpecPath == PbInit /\ [][PbNext]_vars

\* get_full_path is a call that runs until it returns: an iteration that can
\* be taken is taken.
SpecPathLive == PbInit /\ [][PbNext]_vars /\ WF_vars(PbNext)

\* Iteration k of the walk met an entry the walk had not met before.
FirstVisit(k) == \A j \in 1..(k - 1) : pb.trail[j].entry # pb.trail[k].entry

\* Iteration k had a non-zero expected sequence that differs from the stored one.
Mismatch(k) ==
    /\ pb.trail[k].expected # 0
    /\ pb.entries[pb.trail[k].entry].self_seq # pb.trail[k].expected

\* The walk stopped at iteration k with the orphan marker, and the entry of
\* that iteration contributed no name.
StoppedAsOrphan(k) ==
    /\ k = Len(pb.trail)
    /\ pb.path_parts # <<>>
    /\ pb.path_parts[Len(pb.path_parts)] = ORPHAN_OR_REALLOCATED
    /\ pb.result[1] = ORPHAN_OR_REALLOCATED
    /\ \A m \in 1..(Len(pb.origin) - 1) : pb.origin[m] # pb.trail[k].entry

\* The iterations follow the parent pointers from the start entry.
TrailFollowsParents ==
    /\ pb.trail # <<>> =>
          pb.trail[1] = [entry |-> pb.entry_num, expected |-> pb.expected_seq]
    /\ \A k \in 1..(Len(pb.trail) - 1) :
          /\ pb.trail[k + 1].entry = pb.entries[pb.trail[k].entry].parent_num
          /\ pb.trail[k + 1].expected = pb.entries[pb.trail[k].entry].parent_seq

\* C10, as the code has it: at each step of the walk that meets an entry for
\* the first time, a non-zero expected sequence that differs from the stored
\* self_seq appends the orphan marker and stops the walk, so that neither this
\* entry's name nor an ancestor's is in the result; an expected sequence of 0,
\* or one equal to self_seq, does not.
C10_OrphanOnFirstVisit ==
    pb.pc = "done" =>
        /\ TrailFollowsParents
        /\ \A k \in 1..Len(pb.trail) :
              FirstVisit(k) =>
                  IF Mismatch(k) THEN StoppedAsOrphan(k)
                  ELSE /\ ~StoppedAsOrphan(k)
                       /\ \/ pb.entries[pb.trail[k].entry].name = "."
                          \/ \E m \in 1..Len(pb.origin) :
                                /\ pb.origin[m] = pb.trail[k].entry
                                /\ pb.path_parts[m] = pb.entries[pb.trail[k].entry].name

\* A walk that appended a child's name, then met a parent whose sequence
\* number is not the expected one.
C10_Witness ==
    /\ pb.pc = "done"
    /\ Len(pb.trail) >= 2
    /\ Mismatch(Len(pb.trail)) /\ FirstVisit(Len(pb.trail))
    /\ pb.result = <<ORPHAN_OR_REALLOCATED, "a">>

\* C10 as stated: at each step of the walk, a non-zero expected sequence that
\* differs from the stored self_seq appends the orphan marker and stops.
C10_AsStated ==
    pb.pc = "done" =>
        \A k \in 1..Len(pb.trail) : Mismatch(k) => StoppedAsOrphan(k)

\* The result holds neither marker.
MarkerFree ==
    \A i \in 1..Len(pb.result) :
        pb.result[i] \notin {ORPHAN_OR_REALLOCATED, CORRUPTED_LOOP}

\* C29: a path returned without a marker comes from a walk whose last
\* iteration was at entry 5 or at an entry that is its own parent; a walk
\* that ran into an entry the table lacks does not return one.
C29_MarkerFreeIsRooted ==
    (pb.pc = "done" /\ MarkerFree) =>
        /\ pb.trail # <<>>
        /\ LET last == pb.trail[Len(pb.trail)].entry
           IN  last = ROOT_ENTRY \/ pb.entries[last].parent_num = last
        /\ pb.current_entry \in DOMAIN pb.entries

\* The path \a returned for entry 10, whose parent 12 the table lacks.
C29_DanglingParent ==
    /\ pb.pc = "done"
    /\ pb.entry_num = 10 /\ pb.entries[10].parent_num = 12
    /\ pb.current_entry = 12
    /\ pb.result = <<"a">>

(***************************************************************************)
(* C11.  A chain of parent pointers from the start entry that closes on    *)
(* itself, read from the table alone.                                      *)
(***************************************************************************)
\* c is a chain of different table entries from the start entry, each the
\* parent of the one before.
ParentChain(c) ==
    /\ c # <<>>
    /\ c[1] = pb.entry_num
    /\ \A i \in 1..Len(c) : c[i] \in DOMAIN pb.entries
    /\ \A i, j \in 1..Len(c) : i # j => c[i] # c[j]
    /\ \A i \in 1..(Len(c) - 1) : c[i + 1] = pb.entries[c[i]].parent_num

ParentChains ==
    { c \in UNION { [1..n -> DOMAIN pb.entries] : n \in 1..Cardinality(DOMAIN pb.entries) } :
        ParentChain(c) }

\* The parent of the chain's last entry is an earlier entry of the chain: a
\* cycle of two entries or more.
ClosesCycle(c) ==
    \E j \in 1..(Len(c) - 1) : pb.entries[c[Len(c)]].parent_num = c[j]

\* The sequence number the walk expects of entry i of the chain.
ExpectedAt(c, i) ==
    IF i = 1 THEN pb.expected_seq ELSE pb.entries[c[i - 1]].parent_seq

\* Nothing stops the walk on the chain: no entry is the root entry 5, and each
\* has the sequence number expected of it (or none is expected).
WalkedThrough(c) ==
    \A i \in 1..Len(c) :
        /\ c[i] # ROOT_ENTRY
        /\ \/ ExpectedAt(c, i) = 0
           \/ ExpectedAt(c, i) = pb.entries[c[i]].self_seq

HasLoopMarker == \E m \in 1..Len(pb.result) : pb.result[m] = CORRUPTED_LOOP

\* C11, as the code has it: get_full_path terminates; it makes at most one
\* iteration per table entry plus the one that detects a revisit, and no
\* iteration but the last meets an entry met before; the result holds
\* <CORRUPTED_LOOP> (once, as its first component) exactly when the parent
\* pointers from the start entry close a cycle of two or more entries that
\* the walk goes through: none of them is entry 5 and none has a sequence
\* number other than the expected one.
C11_TerminatesLoopMarked ==
    /\ <>(pb.pc = "done")
    /\ [](/\ Len(pb.trail) <= Cardinality(DOMAIN pb.entries) + 1
          /\ \A j, k \in 1..Len(pb.trail) :
                (j < k /\ pb.trail[j].entry = pb.trail[k].entry) =>
                    (k = Len(pb.trail) /\ pb.pc = "done")
          /\ pb.pc = "done" =>
                /\ HasLoopMarker <=>
                       \E c \in ParentChains : ClosesCycle(c) /\ WalkedThrough(c)
                /\ \A m \in 1..Len(pb.result) :
                       pb.result[m] = CORRUPTED_LOOP => m = 1)

\* A walk over the cycle 10 -> 11 -> 10 that came back to its start.
C11_Witness ==
    /\ pb.pc = "done"
    /\ Len(pb.trail) = 3
    /\ pb.trail[3].entry = pb.trail[1].entry
    /\ pb.result = <<CORRUPTED_LOOP, "b", "a">>

\* C11 as stated: a cycle in the parent pointers reachable from the start
\* entry yields a result containing <CORRUPTED_LOOP>.
C11_AsStated ==
    pb.pc = "done" =>
        ((\E c \in ParentChains : ClosesCycle(c)) => HasLoopMarker)

(***************************************************************************)
(* The parser's two passes over one logical record, commands/parse.rs run  *)
(* with gather_record_buffers.  The record is entry NAMED_ENTRY: its base  *)
(* record and the extent records its resident $ATTRIBUTE_LIST names, all   *)
(* of them read and fixed up successfully.  A buffer is the sequence of    *)
(* the attributes the scan of it meets.  extents_to_fetch is a HashSet,    *)
(* and each call of gather_record_buffers builds its own: the order in     *)
(* which the extent buffers follow the base buffer is drawn anew in each   *)
(* pass.  seen is history: the $FILE_NAME values parsed in the pass so     *)
(* far, in the order met.  An Option is a sequence of length 0 or 1.       *)
(***************************************************************************)
MaxExtents == 2     \* extent records of the logical record

NAMED_ENTRY == 10

ExtentEntries == (NAMED_ENTRY + 1)..(NAMED_ENTRY + MaxExtents)

NAME_WIN32 == 1
NAME_DOS == 2
NAME_WIN32_AND_DOS == 3

ParsedAttr(kind, parsable, name, name_type, size, id) ==
    [kind |-> kind, parsable |-> parsable, name |-> name, name_type |-> name_type,
     parent_entry |-> ROOT_ENTRY, parent_seq |-> 1, size |-> size, id |-> id]

\* $FILE_NAME values: Win32 names (two hard links), a DOS name, a POSIX name,
\* and one FileNameAttribute::parse refuses.
FnAttrs ==
    { ParsedAttr("fn", TRUE, "a.txt", NAME_WIN32, 100, 0),
      ParsedAttr("fn", TRUE, "b.txt", NAME_WIN32_AND_DOS, 200, 0),
      ParsedAttr("fn", TRUE, "A~1.TXT", NAME_DOS, 100, 0),
      ParsedAttr("fn", TRUE, "posix", 0, 100, 0),
      ParsedAttr("fn", FALSE, "", 0, 0, 0) }

SiAttrs ==
    { ParsedAttr("si", TRUE, "", 0, 0, 1),
      ParsedAttr("si", TRUE, "", 0, 0, 2),
      ParsedAttr("si", FALSE, "", 0, 0, 0) }

\* Unnamed $DATA attributes, by the size their header gives.
DataAttrs2 == { ParsedAttr("data", TRUE, "", 0, sz, 0) : sz \in {0, 300} }

BaseBuffers ==
    { <<>> }
    \cup { <<si>> : si \in SiAttrs }
    \cup { <<si, f>> : si \in SiAttrs, f \in FnAttrs }
    \cup { <<ParsedAttr("si", TRUE, "", 0, 0, 1), f, g>> : f \in FnAttrs, g \in FnAttrs }
    \cup { <<ParsedAttr("si", TRUE, "", 0, 0, 1), f, d>> : f \in FnAttrs, d \in DataAttrs2 }

ExtentBuffers ==
    { <<>> }
    \cup { <<a>> : a \in FnAttrs \cup SiAttrs \cup DataAttrs2 }

\* The path table pass 1 has built from the entries before NAMED_ENTRY.
NameTables ==
    { (5 :> PathEntry(5, 1, 1, ".")),
      (0 :> PathEntry(5, 1, 1, "$MFT")) @@ (5 :> PathEntry(5, 1, 1, ".")) }

\* mft/path_builder.rs get_full_path as one call.
RECURSIVE PathWalk(_)
PathWalk(s) == IF s.pc = "done" THEN s.result ELSE PathWalk(PathStep(s))

get_full_path(entries, entry_num, expected_seq) ==
    PathWalk(PbStart(entries, entry_num, expected_seq))

\* Lines 60-66: get_full_path never returns the empty string.
get_parent_path(entries, parent_num, parent_seq) ==
    get_full_path(entries, parent_num, parent_seq)

NmStart(base, extent_records, entries) ==
    [pc |-> "gather1", base |-> base, extent_records |-> extent_records,
     entries |-> entries, sequence_number |-> 1,
     buffers |-> <<>>, buf_idx |-> 0, attr_idx |-> 0,
     best_fn |-> <<>>, seen |-> <<>>,
     pass1_seen |-> <<>>,                 \* history: seen, at the end of pass 1
     pass1_best |-> <<>>,                 \* history: best_fn, at the end of pass 1
     fn_attr_data |-> <<>>, file_name |-> "", fn_logical_size |-> <<>>,
     si_attr |-> <<>>, data_unnamed_size |-> <<>>,
     entry |-> <<>>]                      \* the MftEntry written

\* gather_record_buffers: the base buffer, then the extent buffers in the
\* order the HashSet hands out its elements.
Gather(s, order) ==
    [s EXCEPT !.pc = IF s.pc = "gather1" THEN "scan1" ELSE "scan2",
              !.buffers = <<s.base>> \o [k \in 1..Len(order) |-> s.extent_records[order[k]]],
              !.buf_idx = 1, !.attr_idx = 1]

Orders(S) ==
    { o \in [1..Cardinality(S) -> S] : \A i, j \in 1..Cardinality(S) : o[i] = o[j] => i = j }

IsWin32(f) == f.name_type = NAME_WIN32 \/ f.name_type = NAME_WIN32_AND_DOS

CurrentPrio(best) ==
    IF best = <<>> THEN 0 ELSE IF IsWin32(best[1]) THEN 2 ELSE 1

\* A selection that keeps the first name it meets.
TakesFnFirstOnly(best, f) == CurrentPrio(best) = 0

\* Lines 185-190 (pass 1) and 271-275 (pass 2): whether the name just parsed
\* replaces the best one.
TakesFn(best, f) == IsWin32(f) \/ CurrentPrio(best) = 0

\* The scan moves to the next attribute, or to the next buffer.
Advance(s) ==
    IF s.attr_idx < Len(s.buffers[s.buf_idx])
    THEN [s EXCEPT !.attr_idx = @ + 1]
    ELSE [s EXCEPT !.buf_idx = @ + 1, !.attr_idx = 1]

\* Lines 196-200: the end of pass 1 for this record.
AddEntry(s) ==
    [s EXCEPT !.pc = "gather2",
              !.entries = IF s.best_fn = <<>> THEN @
                          ELSE (NAMED_ENTRY :> PathEntry(s.best_fn[1].parent_entry,
                                                         s.best_fn[1].parent_seq,
                                                         s.sequence_number,
                                                         s.best_fn[1].name)) @@ @,
              !.pass1_seen = s.seen, !.pass1_best = s.best_fn,
              !.seen = <<>>, !.best_fn = <<>>,
              !.buffers = <<>>, !.buf_idx = 0, !.attr_idx = 0]

\* Lines 151-194: one attribute of pass 1.
Scan1(s) ==
    IF s.buf_idx > Len(s.buffers) THEN AddEntry(s)
    ELSE IF s.buffers[s.buf_idx] = <<>> THEN Advance(s)
    ELSE
    LET a == s.buffers[s.buf_idx][s.attr_idx]
    IN  IF a.kind = "fn" /\ a.parsable
        THEN Advance([s EXCEPT !.seen = Append(@, a),
                               !.best_fn = IF TakesFn(s.best_fn, a) THEN <<a>> ELSE @])
        ELSE Advance(s)

\* Lines 306-316 and 343-362: the entry written for the record.
Emit(s) ==
    LET parent_entry == IF s.fn_attr_data = <<>> THEN 0 ELSE s.fn_attr_data[1].parent_entry
        parent_seq == IF s.fn_attr_data = <<>> THEN 0 ELSE s.fn_attr_data[1].parent_seq
        parent_path == get_parent_path(s.entries, parent_entry, parent_seq)
        file_size == IF s.data_unnamed_size # <<>> THEN s.data_unnamed_size[1]
                     ELSE IF s.fn_logical_size # <<>> THEN s.fn_logical_size[1]
                     ELSE 0
    IN  [s EXCEPT !.pc = "emitted",
                  !.entry = <<[parent_entry_number |-> parent_entry,
                               parent_sequence_number |-> parent_seq,
                               parent_path |-> parent_path,
                               file_name |-> s.file_name,
                               full_path |-> parent_path \o <<s.file_name>>,
                               file_size |-> file_size,
                               security_id |-> IF s.si_attr = <<>> THEN 0
                                               ELSE s.si_attr[1],
                               name_type |-> IF s.fn_attr_data = <<>> THEN 0
                                             ELSE s.fn_attr_data[1].name_type]>>]

\* Lines 246-302: what one attribute does to the values pass 2 collects.
Collect(s, a) ==
    IF a.kind = "si"
    THEN [s EXCEPT !.si_attr = IF a.parsable THEN <<a.id>> ELSE <<>>]
    ELSE IF a.kind = "fn" /\ a.parsable
    THEN IF TakesFn(s.fn_attr_data, a)
         THEN [s EXCEPT !.seen = Append(@, a),
                        !.fn_logical_size = <<a.size>>,
                        !.file_name = a.name,
                        !.fn_attr_data = <<a>>]
         ELSE [s EXCEPT !.seen = Append(@, a)]
    ELSE IF a.kind = "data"
    THEN [s EXCEPT !.data_unnamed_size = <<a.size>>]
    ELSE s

\* One attribute of pass 2.
Scan2(s) ==
    IF s.buf_idx > Len(s.buffers) THEN Emit(s)
    ELSE IF s.buffers[s.buf_idx] = <<>> THEN Advance(s)
    ELSE Advance(Collect(s, s.buffers[s.buf_idx][s.attr_idx]))

NmInit ==
    /\ \E listed \in SUBSET ExtentEntries :
          pa \in { NmStart(base, recs, t) :
                     base \in BaseBuffers, recs \in [listed -> ExtentBuffers],
                     t \in NameTables }
    /\ ex = Idle /\ loc = Idle /\ fx = Idle /\ pb = Idle

NmGather ==
    /\ pa.pc \in {"gather1", "gather2"}
    /\ \E order \in Orders(DOMAIN pa.extent_records) : pa' = Gather(pa, order)
    /\ UNCHANGED <<ex, loc, fx, pb>>

NmScan1 ==
    /\ pa.pc = "scan1"
    /\ pa' = Scan1(pa)
    /\ UNCHANGED <<ex, loc, fx, pb>>

NmScan2 ==
    /\ pa.pc = "scan2"
    /\ pa' = Scan2(pa)
    /\ UNCHANGED <<ex, loc, fx, pb>>

NmNext == NmGather \/ NmScan1 \/ NmScan2

SpecNames == NmInit /\ [][NmNext]_vars

\* The rule of the claim applied to the names met so far and the one chosen.
ChosenByRule(seen, best) ==
    IF seen = <<>> THEN best = <<>>
    ELSE IF \E k \in 1..Len(seen) : seen[k].name_type \in {1, 3}
    THEN /\ best # <<>>
         /\ best[1].name_type \in {1, 3}
         /\ \E k \in 1..Len(seen) : seen[k] = best[1]
    ELSE best = <<seen[1]>>

\* C23: in both passes, over the $FILE_NAME attributes taken in iteration
\* order, the chosen name is of type 1 or 3 whenever one of them has such a
\* type and is the first one seen otherwise; what pass 1 stores in the path
\* table and what pass 2 emits are chosen by that one rule.
C23_BestNameRule ==
    /\ pa.pc = "scan1" => ChosenByRule(pa.seen, pa.best_fn)
    /\ pa.pc \in {"gather2", "scan2", "emitted"} =>
          /\ ChosenByRule(pa.pass1_seen, pa.pass1_best)
          /\ (NAMED_ENTRY \in DOMAIN pa.entries) <=> (pa.pass1_best # <<>>)
          /\ pa.pass1_best # <<>> =>
                pa.entries[NAMED_ENTRY].name = pa.pass1_best[1].name
    /\ pa.pc \in {"scan2", "emitted"} =>
          /\ ChosenByRule(pa.seen, pa.fn_attr_data)
          /\ pa.file_name = IF pa.fn_attr_data = <<>> THEN ""
                            ELSE pa.fn_attr_data[1].name
    /\ pa.pc = "emitted" =>
          /\ pa.entry[1].file_name = pa.file_name
          /\ (pa.seen = pa.pass1_seen) => (pa.fn_attr_data = pa.pass1_best)

\* A DOS name met first and a Win32 name after it: the Win32 name is emitted.
C23_Witness ==
    /\ pa.pc = "emitted"
    /\ Len(pa.seen) = 2
    /\ pa.seen[1].name_type = NAME_DOS /\ pa.seen[2].name_type = NAME_WIN32
    /\ pa.entry[1].file_name = "a.txt"
    /\ pa.entries[NAMED_ENTRY].name = "a.txt"

\* No $FILE_NAME at all was parsed in pass 2.
Nameless == pa.pc = "emitted" /\ pa.seen = <<>>

HasMarker(path) ==
    \E i \in 1..Len(path) : path[i] \in {ORPHAN_OR_REALLOCATED, CORRUPTED_LOOP}

\* C26: the entry written for a record without a parsable $FILE_NAME has a
\* marker in its path, and its parent_path is not the path of entry 0.
C26_NamelessFallsBack ==
    Nameless =>
        /\ HasMarker(pa.entry[1].full_path)
        /\ 0 \in DOMAIN pa.entries =>
              pa.entry[1].parent_path # get_full_path(pa.entries, 0, 0)

\* A nameless record written as a child of \$MFT.
C26_NamelessUnderMft ==
    /\ Nameless
    /\ pa.entry[1].parent_path = <<"$MFT">>
    /\ pa.entry[1].full_path = <<"$MFT", "">>

\* The values pass 2 collects when the extent buffers follow the base buffer
\* in ascending order of their entry numbers.
RECURSIVE CollectAll(_, _)
CollectAll(s, attrs) ==
    IF attrs = <<>> THEN s ELSE CollectAll(Collect(s, Head(attrs)), Tail(attrs))

AscendingOrder(S) ==
    CHOOSE o \in Orders(S) : \A i, j \in 1..Cardinality(S) : i < j => o[i] < o[j]

InAscendingOrder ==
    Emit(CollectAll([pa EXCEPT !.fn_attr_data = <<>>, !.file_name = "",
                               !.fn_logical_size = <<>>, !.si_attr = <<>>,
                               !.data_unnamed_size = <<>>, !.seen = <<>>],
                    Flatten(Gather([pa EXCEPT !.pc = "gather2"],
                                   AscendingOrder(DOMAIN pa.extent_records)).buffers)))

\* C30: whatever the order of the extent buffers, the entry written has the
\* name, parent, $STANDARD_INFORMATION and file_size it has for the ascending
\* order, and its name is the one pass 1 stored in the path table.
C30_OrderIndependent ==
    pa.pc = "emitted" =>
        /\ pa.entry = InAscendingOrder.entry
        /\ IF pa.pass1_best = <<>> THEN pa.entry[1].file_name = ""
           ELSE pa.entry[1].file_name = pa.entries[NAMED_ENTRY].name

\* Two hard links in two extent records: pass 1 stored one name in the path
\* table and pass 2 emitted the other.
C30_NamesDiffer ==
    /\ pa.pc = "emitted"
    /\ NAMED_ENTRY \in DOMAIN pa.entries
    /\ pa.entries[NAMED_ENTRY].name = "a.txt"
    /\ pa.entry[1].file_name = "b.txt"

=============================================================================
